---- MODULE Spec2Model ----
(***************************************************************************)
(* Model of the simulator export core of case-gen-entropy:                 *)
(* backend/utils/simulator_export.py (create_feature_lr_matrix and its     *)
(* nested helpers _norm and _closest).                                     *)
(*                                                                         *)
(* Text is modelled as a sequence of one-character strings, so that the    *)
(* normalisation, the similarity scores and the ordering of labels are     *)
(* computed, character by character, as the code computes them.            *)
(* Likelihood ratios are fixed-point: inputs in thousandths, table cells   *)
(* in hundredths (the code rounds every stored value to 2 decimals).       *)
(***************************************************************************)
EXTENDS Integers, Sequences, FiniteSets, TLC

(***************************************************************************)
(* Characters.  Chars lists the modelled characters in code point order,   *)
(* which is the order Python compares strings by.                          *)
(***************************************************************************)
Chars ==
    << "\t", "\n", " ",
       "0", "1", "2", "3", "4", "5", "6", "7", "8", "9", ":",
       "A", "B", "C", "D", "E", "F", "G", "H", "I", "J", "K", "L", "M",
       "N", "O", "P", "Q", "R", "S", "T", "U", "V", "W", "X", "Y", "Z",
       "a", "b", "c", "d", "e", "f", "g", "h", "i", "j", "k", "l", "m",
       "n", "o", "p", "q", "r", "s", "t", "u", "v", "w", "x", "y", "z" >>

CharSet == { Chars[i] : i \in DOMAIN Chars }

Ord == [ c \in CharSet |-> CHOOSE i \in DOMAIN Chars : Chars[i] = c ]

IsSpace(c) == c \in { " ", "\t", "\n" }

IsDigit(c) == c \in { "0", "1", "2", "3", "4", "5", "6", "7", "8", "9" }

IsUpper(c) == Ord[c] >= Ord["A"] /\ Ord[c] <= Ord["Z"]

\* str.lower() on one character
LowerChar(c) == IF IsUpper(c) THEN Chars[Ord[c] + (Ord["a"] - Ord["A"])] ELSE c

\* str.lower()
Lower(s) == [ i \in DOMAIN s |-> LowerChar(s[i]) ]

\* the suffix of s that starts at position p (1-based); empty when p > Len(s)
From(s, p) == SubSeq(s, p, Len(s))

\* the first position >= p of s that holds no whitespace (Len(s)+1 if none)
RECURSIVE SkipSpaces(_, _)
SkipSpaces(s, p) ==
    IF p <= Len(s) /\ IsSpace(s[p]) THEN SkipSpaces(s, p + 1) ELSE p

\* the first position >= p of s that holds no digit (Len(s)+1 if none)
RECURSIVE SkipDigits(_, _)
SkipDigits(s, p) ==
    IF p <= Len(s) /\ IsDigit(s[p]) THEN SkipDigits(s, p + 1) ELSE p

\* the last position <= p of s that holds no whitespace (0 if none)
RECURSIVE BackSpaces(_, _)
BackSpaces(s, p) ==
    IF p >= 1 /\ IsSpace(s[p]) THEN BackSpaces(s, p - 1) ELSE p

\* str.strip()
Strip(s) == SubSeq(s, SkipSpaces(s, 1), BackSpaces(s, Len(s)))

\* s.startswith(pre)
StartsWith(s, pre) == Len(s) >= Len(pre) /\ SubSeq(s, 1, Len(pre)) = pre

TierWord == << "t", "i", "e", "r" >>

\* re.sub(r"^tier\s*\d+\s*:\s*", "", s)
StripTierPrefix(s) ==
    IF ~StartsWith(s, TierWord) THEN s
    ELSE LET p == SkipSpaces(s, Len(TierWord) + 1)
             q == SkipDigits(s, p)
             r == SkipSpaces(s, q)
         IN  IF q > p /\ r <= Len(s) /\ s[r] = ":"
             THEN From(s, SkipSpaces(s, r + 1))
             ELSE s

\* re.sub(r"\s+", " ", s)
RECURSIVE CollapseSpaces(_)
CollapseSpaces(s) ==
    IF s = << >> THEN << >>
    ELSE IF IsSpace(s[1])
         THEN << " " >> \o CollapseSpaces(From(s, SkipSpaces(s, 1)))
         ELSE << s[1] >> \o CollapseSpaces(Tail(s))

\* Norm without the collapse of whitespace runs
NormNoCollapse(s) == StripTierPrefix(Lower(Strip(s)))

\* _norm: (s or "").strip().lower(), then the two substitutions.
\* A missing name (None) and the empty string are both << >>.
Norm(s) == CollapseSpaces(StripTierPrefix(Lower(Strip(s))))

\* the first position >= p of s that holds whitespace (Len(s)+1 if none)
RECURSIVE SkipWord(_, _)
SkipWord(s, p) ==
    IF p <= Len(s) /\ ~IsSpace(s[p]) THEN SkipWord(s, p + 1) ELSE p

\* set(s.split()): the set of maximal whitespace-free runs of s
RECURSIVE Tokens(_)
Tokens(s) ==
    LET p == SkipSpaces(s, 1)
        q == SkipWord(s, p)
    IN  IF p > Len(s) THEN {}
        ELSE { SubSeq(s, p, q - 1) } \cup Tokens(From(s, q))

\* Python's < on strings: lexicographic by code point, a proper prefix is less
RECURSIVE StrLess(_, _)
StrLess(s, t) ==
    IF t = << >> THEN FALSE
    ELSE IF s = << >> THEN TRUE
    ELSE IF s[1] = t[1] THEN StrLess(Tail(s), Tail(t))
    ELSE Ord[s[1]] < Ord[t[1]]

(***************************************************************************)
(* Optional values: None is << >>, a value v is << v >>.  A name is a      *)
(* text; a missing name and the empty name are both << >> (the code tests  *)
(* names only for truthiness).                                             *)
(***************************************************************************)
\* the elements of a sequence
Range(seq) == { seq[i] : i \in DOMAIN seq }

None == << >>

Some(v) == << v >>

\* Python truthiness of a text
Truthy(name) == name # << >>

\* Python truthiness of an optional text: neither None nor ""
TruthyOpt(o) == o # None /\ Truthy(o[1])

(***************************************************************************)
(* Similarity scores.  A score is a fraction << numerator, denominator >>  *)
(* with a positive denominator; scores are compared by cross              *)
(* multiplication, which agrees with the comparison of the floating point  *)
(* quotients the code computes for operands of this size.                  *)
(***************************************************************************)
FracGeq(x, y) == x[1] * y[2] >= y[1] * x[2]

FracGt(x, y) == x[1] * y[2] > y[1] * x[2]

FracEq(x, y) == x[1] * y[2] = y[1] * x[2]

SetMax(S) == CHOOSE x \in S : \A y \in S : y <= x

SetMin(S) == CHOOSE x \in S : \A y \in S : x <= y

\* the length of the longest common run of a[i..ahi] and b[j..bhi] that
\* starts at a[i] and b[j]
RECURSIVE CommonLen(_, _, _, _, _, _)
CommonLen(a, b, i, j, ahi, bhi) ==
    IF i <= ahi /\ j <= bhi /\ a[i] = b[j]
    THEN 1 + CommonLen(a, b, i + 1, j + 1, ahi, bhi)
    ELSE 0

\* the earliest block of size k in the table sz of common run lengths: of
\* the blocks of that size the one that starts earliest in a, and of those
\* the one that starts earliest in b
EarliestBlock(sz, k) ==
    LET i == SetMin({ p[1] : p \in { q \in DOMAIN sz : sz[q] = k } })
    IN  << i, SetMin({ p[2] : p \in { q \in DOMAIN sz : sz[q] = k /\ q[1] = i } }), k >>

\* the longest block of the table sz, << alo, blo, 0 >> when there is none
LongestBlock(sz, alo, blo) ==
    IF \A p \in DOMAIN sz : sz[p] = 0 THEN << alo, blo, 0 >>
    ELSE EarliestBlock(sz, SetMax({ sz[p] : p \in DOMAIN sz }))

\* difflib.SequenceMatcher.find_longest_match(alo, ahi, blo, bhi) without
\* junk, on the inclusive 1-based windows a[alo..ahi], b[blo..bhi]: the
\* longest matching block << i, j, size >>; of the longest blocks the one
\* that starts earliest in a, and of those the one that starts earliest in b.
LongestMatch(a, b, alo, ahi, blo, bhi) ==
    LongestBlock([ p \in (alo .. ahi) \X (blo .. bhi) |->
                     CommonLen(a, b, p[1], p[2], ahi, bhi) ], alo, blo)

\* the total size of SequenceMatcher.get_matching_blocks(): the longest
\* block, then recursively the pieces to its left and to its right
RECURSIVE MatchCount(_, _, _, _, _, _)
RECURSIVE MatchCountAround(_, _, _, _, _, _, _)
MatchCountAround(a, b, alo, ahi, blo, bhi, m) ==
    IF m[3] = 0 THEN 0
    ELSE m[3]
         + MatchCount(a, b, alo, m[1] - 1, blo, m[2] - 1)
         + MatchCount(a, b, m[1] + m[3], ahi, m[2] + m[3], bhi)

MatchCount(a, b, alo, ahi, blo, bhi) ==
    IF alo > ahi \/ blo > bhi THEN 0
    ELSE MatchCountAround(a, b, alo, ahi, blo, bhi,
                          LongestMatch(a, b, alo, ahi, blo, bhi))

\* SequenceMatcher(None, a, b).ratio() = 2.0 * matches / (len(a) + len(b)),
\* and 1.0 when both are empty
Ratio(a, b) ==
    IF Len(a) + Len(b) = 0 THEN << 1, 1 >>
    ELSE << 2 * MatchCount(a, b, 1, Len(a), 1, Len(b)), Len(a) + Len(b) >>

\* the token overlap of _closest for the token sets tset and cset:
\* |tset & cset| / |tset | cset|
Overlap(tset, cset) == << Cardinality(tset \cap cset), Cardinality(tset \cup cset) >>

Jaccard(target, c) == Overlap(Tokens(target), Tokens(c))

\* the order of the (score, candidate) tuples that heapq.nlargest compares
TupleLess(s1, x1, s2, x2) ==
    FracGt(s2, s1) \/ (FracEq(s1, s2) /\ StrLess(x1, x2))

\* max() over the (score, candidate) tuples scored[i..]: the index of the
\* first maximal tuple, starting from the best so far
RECURSIVE MaxTuple(_, _, _)
MaxTuple(scored, i, best) ==
    IF i > Len(scored) THEN best
    ELSE IF TupleLess(scored[best].score, scored[best].x, scored[i].score, scored[i].x)
         THEN MaxTuple(scored, i + 1, i)
         ELSE MaxTuple(scored, i + 1, best)

\* heapq.nlargest(1, result): << >> or the largest tuple's candidate
Largest(result) ==
    IF result = << >> THEN << >> ELSE << result[MaxTuple(result, 2, 1)].x >>

\* the (ratio, x) tuples of the possibilities, x as seq1 and word as seq2
Scored(word, possibilities) ==
    [ i \in DOMAIN possibilities |->
        [ score |-> Ratio(possibilities[i], word), x |-> possibilities[i] ] ]

AtLeast(cutoff, scored) == SelectSeq(scored, LAMBDA t : FracGeq(t.score, cutoff))

\* difflib.get_close_matches(word, possibilities, n=1, cutoff): the
\* possibilities whose ratio reaches the cutoff, and of them the one with
\* the largest (ratio, possibility) tuple.  Returns a list: << >> or << best >>.
GetCloseMatches(word, possibilities, cutoff) ==
    Largest(AtLeast(cutoff, Scored(word, possibilities)))

\* one pass of the token overlap loop of _closest on candidate c with its
\* score; st is [key, score]: best_key (None or << k >>) and best_score
JaccardStep(st, c, score) ==
    IF FracGt(score, st.score) THEN [ key |-> Some(c), score |-> score ] ELSE st

\* the token overlap loop of _closest from candidate i on
RECURSIVE JaccardLoop(_, _, _, _)
JaccardLoop(tset, cands, i, st) ==
    IF i > Len(cands) THEN st
    ELSE IF tset = {} \/ Tokens(cands[i]) = {}
         THEN JaccardLoop(tset, cands, i + 1, st)
         ELSE JaccardLoop(tset, cands, i + 1,
                          JaccardStep(st, cands[i], Overlap(tset, Tokens(cands[i]))))

\* return best_key if best_score >= cutoff else None
JaccardResult(st, cutoff) == IF FracGeq(st.score, cutoff) THEN st.key ELSE None

\* the list of get_close_matches if it is not empty, else the token overlap
ClosestOf(best, target, candidates, cutoff) ==
    IF best # << >> THEN Some(best[1])
    ELSE JaccardResult(JaccardLoop(Tokens(target), candidates, 1,
                                   [ key |-> << >>, score |-> << 0, 1 >> ]), cutoff)

\* _closest(target, candidates, cutoff): << >> for None, << key >> for a key
Closest(target, candidates, cutoff) ==
    IF candidates = << >> THEN << >>
    ELSE ClosestOf(GetCloseMatches(target, candidates, cutoff), target, candidates, cutoff)

(***************************************************************************)
(* Bucket resolution (create_feature_lr_matrix, lines 25-43).  A tier is   *)
(* [tier_level |-> optional level, buckets |-> sequence of [name |-> text]]*)
(***************************************************************************)
\* d.get(key, default) on a dict: a record whose fields are the keys present
Get(d, key, default) == IF key \in DOMAIN d THEN d[key] ELSE default

\* [b.get('name') for b in tier.get('buckets', [])]
BucketNames(tier) ==
    [ i \in DOMAIN Get(tier, "buckets", << >>) |-> Get(Get(tier, "buckets", << >>)[i], "name", None) ]

\* SelectedTier falling back to the last tier of the framework
SelectedTierFallbackLast(fw, T) ==
    LET hits == { i \in DOMAIN fw : Get(fw[i], "tier_level", None) = T }
    IN  IF hits # {} THEN Some(fw[SetMin(hits)])
        ELSE IF fw # << >> THEN Some(fw[Len(fw)])
        ELSE None

\* next((t for t in diagnostic_framework if t.get('tier_level') == tier_level), None),
\* then the fallback to diagnostic_framework[0]
SelectedTier(fw, T) ==
    LET hits == { i \in DOMAIN fw : Get(fw[i], "tier_level", None) = T }
    IN  IF hits # {} THEN Some(fw[SetMin(hits)])
        ELSE IF fw # << >> THEN Some(fw[1])
        ELSE None

\* TierNames with every name kept once
TierNamesDeduplicated(tier) ==
    LET names == BucketNames(tier)
    IN  SelectSeq([ i \in DOMAIN names |->
                      IF \E j \in 1 .. i - 1 : names[j] = names[i] THEN << >> ELSE names[i] ],
                  Truthy)

\* [b.get('name') for b in tier.get('buckets', []) if b.get('name')]
TierNames(tier) ==
    LET names == BucketNames(tier)
    IN  SelectSeq(names, Truthy)

\* the names of every bucket of every tier, in framework order
RECURSIVE AllNames(_)
AllNames(fw) ==
    IF fw = << >> THEN << >>
    ELSE BucketNames(fw[1]) \o AllNames(Tail(fw))

\* UnionLoop without the test against the names seen
RECURSIVE UnionLoopNoSeen(_, _, _)
UnionLoopNoSeen(names, i, acc) ==
    IF i > Len(names) THEN acc
    ELSE IF Truthy(names[i])
         THEN UnionLoopNoSeen(names, i + 1, Append(acc, names[i]))
         ELSE UnionLoopNoSeen(names, i + 1, acc)

\* the union loop of lines 37-43 over names[i..], appending to acc every
\* truthy name that acc does not hold yet
RECURSIVE UnionLoop(_, _, _)
UnionLoop(names, i, acc) ==
    IF i > Len(names) THEN acc
    ELSE IF Truthy(names[i]) /\ names[i] \notin { acc[j] : j \in DOMAIN acc }
         THEN UnionLoop(names, i + 1, Append(acc, names[i]))
         ELSE UnionLoop(names, i + 1, acc)

UnionNames(fw) == UnionLoop(AllNames(fw), 1, << >>)

\* diagnostic_buckets_display as lines 25-43 leave it
ResolveBuckets(fw, T) ==
    LET sel   == IF T # None THEN SelectedTier(fw, T) ELSE None
        names == IF sel # None THEN TierNames(sel[1]) ELSE << >>
    IN  IF names # << >> THEN names ELSE UnionNames(fw)

(***************************************************************************)
(* Dictionaries keyed by normalised name.  A dict is the sequence of its   *)
(* [key, val] items in insertion order; writing an existing key keeps the  *)
(* key's position and replaces its value, as a Python dict does.           *)
(***************************************************************************)
MapKeys(m) == [ i \in DOMAIN m |-> m[i].key ]

MapHas(m, k) == \E i \in DOMAIN m : m[i].key = k

MapGet(m, k) == m[CHOOSE i \in DOMAIN m : m[i].key = k].val

MapPut(m, k, v) ==
    IF MapHas(m, k)
    THEN [ i \in DOMAIN m |-> IF m[i].key = k THEN [key |-> k, val |-> v] ELSE m[i] ]
    ELSE Append(m, [key |-> k, val |-> v])

\* {_norm(name): name for name in names[i..]} added to acc
RECURSIVE NormMapLoop(_, _, _)
NormMapLoop(names, i, acc) ==
    IF i > Len(names) THEN acc
    ELSE NormMapLoop(names, i + 1, MapPut(acc, Norm(names[i]), names[i]))

\* bucket_norm_to_display (line 60)
BucketNormToDisplay(display) == NormMapLoop(display, 1, << >>)

\* union_bucket_norm_to_display (lines 63-68): every truthy name of every tier
UnionBucketNormToDisplay(fw) == NormMapLoop(SelectSeq(AllNames(fw), Truthy), 1, << >>)

(***************************************************************************)
(* Row labels (lines 110-118).                                             *)
(***************************************************************************)
\* s.replace(pat, ''): every non-overlapping occurrence, left to right
RECURSIVE Remove(_, _)
Remove(s, pat) ==
    IF s = << >> THEN << >>
    ELSE IF StartsWith(s, pat) THEN Remove(From(s, Len(pat) + 1), pat)
    ELSE << s[1] >> \o Remove(Tail(s), pat)

RECURSIVE RemoveAll(_, _)
RemoveAll(s, pats) ==
    IF pats = << >> THEN s ELSE RemoveAll(Remove(s, pats[1]), Tail(pats))

CatHistory == "history"

CatPhysicalExam == "physical_exam"

CatDiagnosticWorkup == "diagnostic_workup"

PatientHas == << "P", "a", "t", "i", "e", "n", "t", " ", "H", "a", "s", ":", " " >>

PhysicalFinding == << "P", "h", "y", "s", "i", "c", "a", "l", " ", "F", "i", "n", "d", "i", "n", "g", ":", " " >>

TestResult == << "T", "e", "s", "t", " ", "R", "e", "s", "u", "l", "t", ":", " " >>

ClinicalFeature == << "C", "l", "i", "n", "i", "c", "a", "l", " ", "F", "e", "a", "t", "u", "r", "e", ":", " " >>

HistoryFillers == << << "h", "i", "s", "t", "o", "r", "y", ":" >>,
                     << "q", "u", "e", "s", "t", "i", "o", "n", ":" >> >>

PhysicalFillers == << << "p", "h", "y", "s", "i", "c", "a", "l", " ", "e", "x", "a", "m", ":" >>,
                      << "e", "x", "a", "m", "i", "n", "a", "t", "i", "o", "n", ":" >>,
                      << "p", "h", "y", "s", "i", "c", "a", "l", ":" >> >>

WorkupFillers == << << "d", "i", "a", "g", "n", "o", "s", "t", "i", "c", " ", "t", "e", "s", "t", ":" >>,
                    << "t", "e", "s", "t", ":" >>,
                    << "d", "i", "a", "g", "n", "o", "s", "t", "i", "c", ":" >> >>

\* standardized_feature
StandardizedFeature(feature_name, feature_category) ==
    IF feature_category = CatHistory
    THEN PatientHas \o Strip(RemoveAll(Lower(feature_name), HistoryFillers))
    ELSE IF feature_category = CatPhysicalExam
    THEN PhysicalFinding \o Strip(RemoveAll(Lower(feature_name), PhysicalFillers))
    ELSE IF feature_category = CatDiagnosticWorkup
    THEN TestResult \o Strip(RemoveAll(Lower(feature_name), WorkupFillers))
    ELSE ClinicalFeature \o Strip(feature_name)

(***************************************************************************)
(* Bucket matching of one LR record (lines 127-185).                       *)
(***************************************************************************)
\* a cutoff of 0.6 in place of MatchCutoff
MatchCutoffSixTenths == << 3, 5 >>

\* the cutoff of the in-tier and of the all-tier _closest calls (lines 142, 155)
MatchCutoff == << 1, 2 >>

\* a cutoff of 0.5 in place of ProjectionCutoff
ProjectionCutoffHalf == << 1, 2 >>

\* the cutoff of the projection _closest call (line 163)
ProjectionCutoff == << 2, 5 >>

\* A stage of the matcher that may be skipped: whether _closest was called,
\* and the key it returned (None when it was not called).
Skipped == [ called |-> FALSE, key |-> None ]

Called(key) == [ called |-> TRUE, key |-> key ]

\* FuzzyStage that runs in strict mode too
FuzzyStageIgnoringStrict(norm_bucket, bmap, is_strict) ==
    IF bmap # << >>
    THEN Called(Closest(norm_bucket, MapKeys(bmap), MatchCutoff))
    ELSE Skipped

\* the in-tier fuzzy stage (lines 141-142)
FuzzyStage(norm_bucket, bmap, is_strict) ==
    IF ~is_strict /\ bmap # << >>
    THEN Called(Closest(norm_bucket, MapKeys(bmap), MatchCutoff))
    ELSE Skipped

\* the all-tier stage (lines 154-155); found is the truth of display_bucket
UnionStage(norm_bucket, umap, is_strict, found) ==
    IF ~is_strict /\ ~found /\ umap # << >>
    THEN Called(Closest(norm_bucket, MapKeys(umap), MatchCutoff))
    ELSE Skipped

\* the projection of a union hit onto the selected buckets (line 163)
ProjectionStage(union_display, bmap) ==
    Called(Closest(Norm(union_display), MapKeys(bmap), ProjectionCutoff))

\* The local variables of one loop iteration once line 184 is reached:
\* fuzzy, union and projection are the three _closest calls (ck, uk and
\* proj_key are their keys), and logged is the logger call the iteration made:
\*   "exact" (133), "fuzzy" (145), "cross" (166), "unmatched" (176), "none".
Locals(diagnostic_bucket, norm_bucket, fuzzy, union, union_display, projection, display_bucket, logged) ==
    [ diagnostic_bucket |-> diagnostic_bucket,
      norm_bucket |-> norm_bucket,
      fuzzy |-> fuzzy,
      union |-> union,
      union_display |-> union_display,
      projection |-> projection,
      display_bucket |-> display_bucket,
      logged |-> logged ]

\* lines 163-174: the outcome of the projection
Projected(diagnostic_bucket, norm_bucket, fuzzy, union, union_display, projection, bmap) ==
    IF TruthyOpt(projection.key)
    THEN Locals(diagnostic_bucket, norm_bucket, fuzzy, union, Some(union_display),
                projection, Some(MapGet(bmap, projection.key[1])), "cross")
    ELSE Locals(diagnostic_bucket, norm_bucket, fuzzy, union, Some(union_display),
                projection, None, "unmatched")

\* lines 157-174: the union hit union_display is used directly or projected
MatchUnionHit(diagnostic_bucket, norm_bucket, fuzzy, union, union_display, bmap) ==
    IF MapHas(bmap, Norm(union_display))
    THEN Locals(diagnostic_bucket, norm_bucket, fuzzy, union, Some(union_display), Skipped,
                Some(MapGet(bmap, Norm(union_display))), "none")
    ELSE Projected(diagnostic_bucket, norm_bucket, fuzzy, union, union_display,
                   ProjectionStage(union_display, bmap), bmap)

\* lines 156-183: the outcome of the all-tier stage
MatchUnion(diagnostic_bucket, norm_bucket, fuzzy, union, bmap, umap) ==
    IF TruthyOpt(union.key)
    THEN MatchUnionHit(diagnostic_bucket, norm_bucket, fuzzy, union,
                       MapGet(umap, union.key[1]), bmap)
    ELSE Locals(diagnostic_bucket, norm_bucket, fuzzy, union, None, Skipped, None,
                "unmatched")

\* lines 143-183: the outcome of the in-tier stage, then the all-tier stage
MatchFuzzy(diagnostic_bucket, norm_bucket, fuzzy, bmap, umap, is_strict) ==
    IF TruthyOpt(fuzzy.key)
    THEN Locals(diagnostic_bucket, norm_bucket, fuzzy, Skipped, None, Skipped,
                Some(MapGet(bmap, fuzzy.key[1])), "fuzzy")
    ELSE MatchUnion(diagnostic_bucket, norm_bucket, fuzzy,
                    UnionStage(norm_bucket, umap, is_strict, FALSE), bmap, umap)

\* MatchNormalized that takes the exact match only in strict mode
MatchNormalizedExactOnlyIfStrict(diagnostic_bucket, norm_bucket, bmap, umap, is_strict) ==
    IF is_strict /\ MapHas(bmap, norm_bucket)
    THEN Locals(diagnostic_bucket, norm_bucket, Skipped, Skipped, None, Skipped,
                Some(MapGet(bmap, norm_bucket)), "exact")
    ELSE MatchFuzzy(diagnostic_bucket, norm_bucket,
                    FuzzyStage(norm_bucket, bmap, is_strict), bmap, umap, is_strict)

\* lines 130-183: the exact match, else the fuzzy stages
MatchNormalized(diagnostic_bucket, norm_bucket, bmap, umap, is_strict) ==
    IF MapHas(bmap, norm_bucket)
    THEN Locals(diagnostic_bucket, norm_bucket, Skipped, Skipped, None, Skipped,
                Some(MapGet(bmap, norm_bucket)), "exact")
    ELSE MatchFuzzy(diagnostic_bucket, norm_bucket,
                    FuzzyStage(norm_bucket, bmap, is_strict), bmap, umap, is_strict)

\* lines 128-183
MatchBucket(diagnostic_bucket, bmap, umap, is_strict) ==
    MatchNormalized(diagnostic_bucket, Norm(diagnostic_bucket), bmap, umap, is_strict)

(***************************************************************************)
(* The table.  feature_lr_map is the sequence of its rows in insertion     *)
(* order; a row is [Feature |-> label, cells |-> [bucket name -> value]].  *)
(***************************************************************************)
\* the neutral likelihood ratio 1.0, in hundredths
NeutralLR == 100

\* the minimum likelihood ratio 0.01, in hundredths
MinLR == 1

\* round(float(lr_value), 2): thousandths to the nearest hundredth (a tie,
\* where it is exactly representable, goes to the even hundredth)
Round2(k) ==
    LET q == k \div 10
        r == k % 10
    IN  IF r < 5 THEN q
        ELSE IF r > 5 THEN q + 1
        ELSE IF q % 2 = 0 THEN q ELSE q + 1

RowIndex(map, feature) == { i \in DOMAIN map : map[i].Feature = feature }

\* WithRow setting the row of a known label back to 1.0
WithRowReset(map, feature, display) ==
    IF RowIndex(map, feature) # {}
    THEN [ i \in DOMAIN map |->
             IF map[i].Feature = feature
             THEN [ map[i] EXCEPT !.cells = [ b \in DOMAIN map[i].cells |-> NeutralLR ] ]
             ELSE map[i] ]
    ELSE Append(map, [ Feature |-> feature,
                       cells |-> [ b \in { display[j] : j \in DOMAIN display } |-> NeutralLR ] ])

\* lines 121-125: the row of a new label, every bucket at 1.0
WithRow(map, feature, display) ==
    IF RowIndex(map, feature) # {} THEN map
    ELSE Append(map, [ Feature |-> feature,
                       cells |-> [ b \in { display[j] : j \in DOMAIN display } |-> NeutralLR ] ])

\* lines 184-185: feature_lr_map[feature][display_bucket] = round(float(lr_value), 2)
SetCell(map, feature, display_bucket, lr_value) ==
    [ i \in DOMAIN map |->
        IF map[i].Feature = feature
        THEN [ map[i] EXCEPT !.cells =
                 [ b \in DOMAIN map[i].cells \cup { display_bucket } |->
                     IF b = display_bucket THEN Round2(lr_value) ELSE map[i].cells[b] ] ]
        ELSE map[i] ]

\* the string 'Feature'
FeatureCol == << "F", "e", "a", "t", "u", "r", "e" >>

\* the sequence without its repeated elements (the keys of a dict that the
\* elements were written to in order)
RECURSIVE Dedup(_)
Dedup(seq) ==
    IF seq = << >> THEN << >>
    ELSE LET rest == Dedup(SubSeq(seq, 1, Len(seq) - 1))
             x == seq[Len(seq)]
         IN  IF x \in { rest[j] : j \in DOMAIN rest } THEN rest ELSE Append(rest, x)

\* a value of the 'Feature' column of a frame: a string or a number
Text(s) == [ kind |-> "str", str |-> s, num |-> 0 ]

Number(n) == [ kind |-> "num", str |-> << >>, num |-> n ]

\* lines 189-193: the row dict of a label; row['Feature'] is the label
\* unless a bucket named 'Feature' overwrites it with that bucket's value
RowOf(feature, cells) ==
    [ Feature |-> IF FeatureCol \in DOMAIN cells THEN Number(cells[FeatureCol]) ELSE Text(feature),
      cells |-> cells ]

\* lines 188-199: pd.DataFrame(matrix_data), or the header-only frame when
\* there are no rows
ToFrame(map, display) ==
    IF map = << >>
    THEN [ columns |-> << FeatureCol >> \o display, rows |-> << >> ]
    ELSE [ columns |-> Dedup(<< FeatureCol >> \o display),
           rows |-> [ i \in DOMAIN map |->
                        RowOf(map[i].Feature,
                              [ b \in { display[j] : j \in DOMAIN display } |->
                                  IF b \in DOMAIN map[i].cells
                                  THEN map[i].cells[b] ELSE NeutralLR ]) ] ]

\* ClampCell without the floor
ClampCellNoFloor(x) == x

\* max(x, 0.01)
ClampCell(x) == IF x > MinLR THEN x ELSE MinLR

\* lines 202-203: every bucket column clamped
Clamp(frame, display) ==
    [ frame EXCEPT !.rows =
        [ i \in DOMAIN frame.rows |->
            RowOf(frame.rows[i].Feature.str,
                  [ b \in DOMAIN frame.rows[i].cells |->
                      IF b \in { display[j] : j \in DOMAIN display }
                      THEN ClampCell(frame.rows[i].cells[b])
                      ELSE frame.rows[i].cells[b] ]) ] ]

\* the order of the values of a column: numbers by value, strings by code point
ValueLess(x, y) == IF x.kind = "num" THEN x.num < y.num ELSE StrLess(x.str, y.str)

\* rows inserted one by one into a sequence kept ascending by Feature
RECURSIVE InsertRow(_, _)
InsertRow(sorted, row) ==
    IF sorted = << >> THEN << row >>
    ELSE IF ValueLess(row.Feature, sorted[1].Feature) THEN << row >> \o sorted
    ELSE << sorted[1] >> \o InsertRow(Tail(sorted), row)

RECURSIVE SortRows(_)
SortRows(rows) ==
    IF rows = << >> THEN << >>
    ELSE InsertRow(SortRows(SubSeq(rows, 1, Len(rows) - 1)), rows[Len(rows)])

\* line 206: df.sort_values('Feature').reset_index(drop=True)
SortByFeature(frame) == [ frame EXCEPT !.rows = SortRows(frame.rows) ]

(***************************************************************************)
(* The LR filter (lines 99-102).  An LR record is                          *)
(* [feature_name, feature_category, diagnostic_bucket, likelihood_ratio,   *)
(*  has_tier_level, tier_level]: has_tier_level says whether the record    *)
(* has a 'tier_level' key, tier_level is its optional value.               *)
(***************************************************************************)
\* lr.get('tier_level')
GetTierLevel(lr) == IF lr.has_tier_level THEN lr.tier_level ELSE None

FilterRecords(lrs, T) ==
    IF T # None /\ \E i \in DOMAIN lrs : lrs[i].has_tier_level
    THEN SelectSeq(lrs, LAMBDA lr : GetTierLevel(lr) = T)
    ELSE lrs

(***************************************************************************)
(* Inputs.  The texts, frameworks and LR records the builder is run on.    *)
(***************************************************************************)
\* the largest number of tiers of a framework
MaxTiers == 2

\* the largest number of buckets of a framework, all tiers together
MaxBuckets == 3

\* the largest number of LR records of a call
MaxRecords == 2

\* every sequence over S of length at most n
RECURSIVE SeqsUpTo(_, _)
SeqsUpTo(S, n) ==
    IF n = 0 THEN { << >> }
    ELSE LET shorter == SeqsUpTo(S, n - 1)
         IN  shorter \cup { Append(q, x) : q \in { t \in shorter : Len(t) = n - 1 }, x \in S }

\* every framework of at most tiers more tiers (the next one being tier
\* number idx) and at most budget more buckets; the level of tier number i
\* is drawn from levels[i], bucket names from names
RECURSIVE FrameworksFrom(_, _, _, _, _)
FrameworksFrom(names, levels, idx, tiers, budget) ==
    IF tiers = 0 THEN { << >> }
    ELSE { << >> } \cup
         UNION { { << [ tier_level |-> Some(l),
                        buckets |-> [ i \in DOMAIN bl |-> [ name |-> bl[i] ] ] ] >> \o rest :
                     l \in levels[idx],
                     rest \in FrameworksFrom(names, levels, idx + 1, tiers - 1, budget - Len(bl)) } :
                 bl \in SeqsUpTo(names, budget) }

Tier(level, names) ==
    [ tier_level |-> Some(level), buckets |-> [ i \in DOMAIN names |-> [ name |-> names[i] ] ] ]

LR(feature_name, feature_category, diagnostic_bucket, likelihood_ratio, has_tier_level, tier) ==
    [ feature_name |-> feature_name, feature_category |-> feature_category,
      diagnostic_bucket |-> diagnostic_bucket, likelihood_ratio |-> likelihood_ratio,
      has_tier_level |-> has_tier_level, tier_level |-> tier ]

\* the tier levels a call may request: none, a level a tier can carry, or
\* one that no tier carries
RequestedLevels == { None } \cup { Some(l) : l \in 1 .. 3 }

\* --- inputs that exercise bucket resolution -----------------------------
ResolveNames == { << >>, << "a" >>, << "b" >> }

\* the first tier carries level 1, a later tier 1 or 2: the code only compares
\* levels for equality
ResolveLevels == [ i \in 1 .. MaxTiers + 1 |-> IF i = 1 THEN { 1 } ELSE { 1, 2 } ]

ResolveRecord == LR(<< "x" >>, CatHistory, << "a" >>, 2500, FALSE, None)

ResolveInputs ==
    { [ fw |-> fw, T |-> T, strict |-> TRUE, lrs |-> << ResolveRecord >> ] :
        fw \in FrameworksFrom(ResolveNames, ResolveLevels, 1, MaxTiers, MaxBuckets),
        T \in RequestedLevels }

\* --- inputs that exercise bucket matching -------------------------------
MatchNames == { << "a" >>, << "b" >>, << "a", "c" >>, << "b", " ", "c" >> }

MatchLabels == { << "a", "b" >>, << "A", "B", " " >>, << "a" >>,
                 << "a", " ", "a", " ", "b" >>,
                 << "T", "i", "e", "r", " ", "2", ":", "a", "c" >> }

MatchLevels == [ i \in 1 .. MaxTiers + 1 |-> { i } ]

MatchInputs ==
    { [ fw |-> fw, T |-> Some(1), strict |-> st,
        lrs |-> << LR(<< "x" >>, CatHistory, label, 2500, FALSE, None) >> ] :
        fw \in FrameworksFrom(MatchNames, MatchLevels, 1, MaxTiers, MaxBuckets),
        st \in BOOLEAN,
        label \in MatchLabels }

\* --- inputs that exercise the table builder -----------------------------
BuildFrameworks ==
    { << >>,
      << Tier(1, << << "A", "b" >>, << "b", " ", "c" >> >>), Tier(2, << << "a", "c" >> >>) >>,
      << Tier(2, << << "a", "c" >>, << >>, << "a", "c" >> >>), Tier(1, << << "a", "b" >> >>) >>,
      << Tier(1, << FeatureCol, << "a", "c" >> >>) >> }

BuildRecords ==
    { LR(<< "x" >>, CatHistory, << "a", "b" >>, 2500, FALSE, None),
      LR(<< "x" >>, CatHistory, << "b", " ", "c" >>, 0 - 1500, FALSE, None),
      LR(<< "X", " " >>, CatHistory, << " ", "A", "C" >>, 4, TRUE, None),
      LR(<< "y" >>, CatPhysicalExam, << "a", "c" >>, 0, TRUE, Some(1)),
      LR(<< "y" >>, CatPhysicalExam, << "t", "i", "e", "r", "1", ":", " ", "a", "b" >>, 1234, TRUE, Some(2)),
      LR(<< "y" >>, CatDiagnosticWorkup, << "a" >>, 50006, TRUE, Some(1)),
      LR(<< "Y" >>, "other", << "e" >>, 300, FALSE, None),
      LR(<< "t", "e", "s", "t", ":", "y" >>, CatDiagnosticWorkup, << "b", "c" >>, 0 - 4, TRUE, Some(2)) }

BuildInputs ==
    { [ fw |-> fw, T |-> T, strict |-> st, lrs |-> lrs ] :
        fw \in BuildFrameworks,
        T \in RequestedLevels,
        st \in BOOLEAN,
        lrs \in SeqsUpTo(BuildRecords, MaxRecords) }

(***************************************************************************)
(* create_feature_lr_matrix as a state machine: one call, from its         *)
(* arguments to the returned frame.  case_details is not modelled: the     *)
(* function never reads it.                                                *)
(***************************************************************************)
VARIABLES
    diagnostic_framework,           \* argument
    feature_likelihood_ratios,      \* argument
    tier_level,                     \* argument (optional level)
    strict,                         \* argument
    pc,                             \* the position of the call
    diagnostic_buckets_display,     \* local, line 26
    bucket_norm_to_display,         \* local, line 60
    union_bucket_norm_to_display,   \* local, line 63
    flrs_iter,                      \* local, lines 99-102
    feature_lr_map,                 \* local, line 95
    iters,                          \* the locals of each finished loop iteration
    df,                             \* the returned frame
    previous,                       \* what an earlier call with the same arguments returned
    endpoint,                       \* the request handler that is being served, "none" or the function for a bare call
    table,                          \* the frame handed to validate_lr_matrix_for_simulator
    validation,                     \* what the validator did (optional)
    prior_probs,                    \* what create_prior_probabilities_file returned (optional)
    response,                       \* what the handler answered (optional)
    raised,                         \* the exception that left a bare call (optional)
    shared,                         \* the tier whose a_priori_probabilities is the object a bare call returned (optional)
    redis_client,                   \* app/main.py: whether the module has a Redis client
    store,                          \* Redis: the value of the key of the session (optional)
    database,                       \* the committed rows of the relational database
    requests                        \* the requests to the session handlers, each with its position and locals

vars == << diagnostic_framework, feature_likelihood_ratios, tier_level, strict, pc,
           diagnostic_buckets_display, bucket_norm_to_display,
           union_bucket_norm_to_display, flrs_iter, feature_lr_map, iters, df, previous,
           endpoint, table, validation, prior_probs, response, raised, shared,
           redis_client, store, database, requests >>

\* the state outside the calls of the export functions and their handlers
service == << redis_client, store, database, requests >>

NoRows == [ cases |-> << >>, frameworks |-> << >>, feature_lrs |-> << >> ]

NoService == redis_client = FALSE /\ store = << >> /\ database = NoRows /\ requests = << >>

extra == << raised, shared, service >>

NoExtra == raised = << >> /\ shared = << >> /\ NoService

\* the state of the caller of create_feature_lr_matrix
caller == << previous, endpoint, table, validation, prior_probs, response, extra >>

args == << diagnostic_framework, feature_likelihood_ratios, tier_level, strict >>

NoFrame == [ columns |-> << >>, rows |-> << >> ]

\* no frame was handed to the validator
NoTable == [ columns |-> << >> ]

InitWith(inputs) ==
    /\ \E inp \in inputs :
         /\ diagnostic_framework = inp.fw
         /\ feature_likelihood_ratios = inp.lrs
         /\ tier_level = inp.T
         /\ strict = inp.strict
    /\ pc = "resolve"
    /\ diagnostic_buckets_display = << >>
    /\ bucket_norm_to_display = << >>
    /\ union_bucket_norm_to_display = << >>
    /\ flrs_iter = << >>
    /\ feature_lr_map = << >>
    /\ iters = << >>
    /\ df = NoFrame
    /\ previous = None
    /\ endpoint = "none"
    /\ table = NoTable
    /\ validation = None
    /\ prior_probs = None
    /\ response = None
    /\ NoExtra

Init == InitWith(BuildInputs)

InitResolve == InitWith(ResolveInputs)

InitMatch == InitWith(MatchInputs)

\* lines 25-43
Resolve ==
    /\ pc = "resolve"
    /\ diagnostic_buckets_display' = ResolveBuckets(diagnostic_framework, tier_level)
    /\ pc' = "maps"
    /\ UNCHANGED << args, bucket_norm_to_display, union_bucket_norm_to_display,
                    flrs_iter, feature_lr_map, iters, df, caller >>

\* lines 60-68
BuildMaps ==
    /\ pc = "maps"
    /\ bucket_norm_to_display' = BucketNormToDisplay(diagnostic_buckets_display)
    /\ union_bucket_norm_to_display' = UnionBucketNormToDisplay(diagnostic_framework)
    /\ pc' = "filter"
    /\ UNCHANGED << args, diagnostic_buckets_display, flrs_iter, feature_lr_map, iters, df, caller >>

\* lines 95-102
Filter ==
    /\ pc = "filter"
    /\ flrs_iter' = FilterRecords(feature_likelihood_ratios, tier_level)
    /\ pc' = "rows"
    /\ UNCHANGED << args, diagnostic_buckets_display, bucket_norm_to_display,
                    union_bucket_norm_to_display, feature_lr_map, iters, df, caller >>

\* lines 120-125 and 184-185: the row of the label, then the cell of the match
StoreMatch(map, feature, display, m, lr_value) ==
    IF TruthyOpt(m.display_bucket)
    THEN SetCell(WithRow(map, feature, display), feature, m.display_bucket[1], lr_value)
    ELSE WithRow(map, feature, display)

\* the loop body of lines 105-185 on record lr, given its match m
ProcessWith(lr, m) ==
    /\ feature_lr_map' =
         StoreMatch(feature_lr_map,
                    StandardizedFeature(lr.feature_name, lr.feature_category),
                    diagnostic_buckets_display, m, lr.likelihood_ratio)
    /\ iters' = Append(iters, m)

\* one iteration of the loop of lines 105-185
ProcessRecord ==
    /\ pc = "rows"
    /\ Len(iters) < Len(flrs_iter)
    /\ ProcessWith(flrs_iter[Len(iters) + 1],
                   MatchBucket(flrs_iter[Len(iters) + 1].diagnostic_bucket,
                               bucket_norm_to_display, union_bucket_norm_to_display, strict))
    /\ UNCHANGED << args, pc, diagnostic_buckets_display, bucket_norm_to_display,
                    union_bucket_norm_to_display, flrs_iter, df, caller >>

\* lines 187-208: the frame, clamped and sorted, is returned
BuildFrame ==
    /\ pc = "rows"
    /\ Len(iters) = Len(flrs_iter)
    /\ df' = SortByFeature(Clamp(ToFrame(feature_lr_map, diagnostic_buckets_display),
                                 diagnostic_buckets_display))
    /\ pc' = "done"
    /\ UNCHANGED << args, diagnostic_buckets_display, bucket_norm_to_display,
                    union_bucket_norm_to_display, flrs_iter, feature_lr_map, iters, caller >>

Next == Resolve \/ BuildMaps \/ Filter \/ ProcessRecord \/ BuildFrame

Spec == Init /\ [][Next]_vars

SpecResolve == InitResolve /\ [][Next]_vars

SpecMatch == InitMatch /\ [][Next]_vars

(***************************************************************************)
(* export_to_csv (lines 233-235): df.to_csv(index=False).  Fields are      *)
(* separated by commas, lines end in a newline, a field holding a comma, a *)
(* quote or a line break is quoted, a float is written by its repr.        *)
(***************************************************************************)
Digits == << "0", "1", "2", "3", "4", "5", "6", "7", "8", "9" >>

\* the decimal digits of a natural number
RECURSIVE NatText(_)
NatText(n) ==
    IF n < 10 THEN << Digits[n + 1] >>
    ELSE NatText(n \div 10) \o << Digits[(n % 10) + 1] >>

\* the digits after the point of a number of hundredths
FracText(f) ==
    IF f % 10 = 0 THEN << Digits[(f \div 10) + 1] >>
    ELSE << Digits[(f \div 10) + 1], Digits[(f % 10) + 1] >>

\* repr of the float that is h hundredths
FloatText(h) ==
    IF h < 0 THEN << "-" >> \o NatText((0 - h) \div 100) \o << "." >> \o FracText((0 - h) % 100)
    ELSE NatText(h \div 100) \o << "." >> \o FracText(h % 100)

NeedsQuote(s) == \E i \in DOMAIN s : s[i] \in { ",", "\"", "\n", "\r" }

RECURSIVE DoubleQuotes(_)
DoubleQuotes(s) ==
    IF s = << >> THEN << >>
    ELSE (IF s[1] = "\"" THEN << "\"", "\"" >> ELSE << s[1] >>) \o DoubleQuotes(Tail(s))

QuoteField(s) == IF NeedsQuote(s) THEN << "\"" >> \o DoubleQuotes(s) \o << "\"" >> ELSE s

\* the fields of a line, comma separated, and the line break
RECURSIVE CsvLine(_)
CsvLine(fields) ==
    IF fields = << >> THEN << "\n" >>
    ELSE IF Len(fields) = 1 THEN fields[1] \o << "\n" >>
    ELSE fields[1] \o << "," >> \o CsvLine(Tail(fields))

ValueText(v) == IF v.kind = "num" THEN FloatText(v.num) ELSE QuoteField(v.str)

RowFields(columns, row) ==
    [ c \in DOMAIN columns |->
        IF columns[c] = FeatureCol THEN ValueText(row.Feature)
        ELSE FloatText(row.cells[columns[c]]) ]

RECURSIVE CsvRows(_, _)
CsvRows(columns, rows) ==
    IF rows = << >> THEN << >>
    ELSE CsvLine(RowFields(columns, rows[1])) \o CsvRows(columns, Tail(rows))

ExportToCsv(frame) ==
    CsvLine([ c \in DOMAIN frame.columns |-> QuoteField(frame.columns[c]) ])
        \o CsvRows(frame.columns, frame.rows)

(***************************************************************************)
(* A second call of create_feature_lr_matrix with the arguments of the     *)
(* first: the function keeps nothing between calls, each call starts from  *)
(* its arguments with fresh locals.                                        *)
(***************************************************************************)
\* CallAgain with the loop position of the first call left in place
CallAgainKeepingPosition ==
    /\ pc = "done"
    /\ previous = None
    /\ previous' = Some([ df |-> df, csv |-> ExportToCsv(df) ])
    /\ pc' = "resolve"
    /\ diagnostic_buckets_display' = << >>
    /\ bucket_norm_to_display' = << >>
    /\ union_bucket_norm_to_display' = << >>
    /\ flrs_iter' = << >>
    /\ feature_lr_map' = << >>
    /\ df' = NoFrame
    /\ UNCHANGED << args, iters, endpoint, table, validation, prior_probs, response, extra >>

\* the caller keeps the frame and the CSV text of the first call and calls
\* again
CallAgain ==
    /\ pc = "done"
    /\ previous = None
    /\ previous' = Some([ df |-> df, csv |-> ExportToCsv(df) ])
    /\ pc' = "resolve"
    /\ diagnostic_buckets_display' = << >>
    /\ bucket_norm_to_display' = << >>
    /\ union_bucket_norm_to_display' = << >>
    /\ flrs_iter' = << >>
    /\ feature_lr_map' = << >>
    /\ iters' = << >>
    /\ df' = NoFrame
    /\ UNCHANGED << args, endpoint, table, validation, prior_probs, response, extra >>

NextTwice == Next \/ CallAgain

SpecTwice == Init /\ [][NextTwice]_vars

(***************************************************************************)
(* validate_lr_matrix_for_simulator (lines 292-325).  The frame it is      *)
(* given is a sequence of columns [name, numeric, values]: numeric says    *)
(* whether the column has a number dtype, values holds one value per row   *)
(* (a number of hundredths, a string, or the missing value).               *)
(***************************************************************************)
\* the missing value (NaN, None)
NaN == [ kind |-> "nan", str |-> << >>, num |-> 0 ]

Column(name, numeric, values) == [ name |-> name, numeric |-> numeric, values |-> values ]

\* df.select_dtypes(include=[np.number]).columns
NumericCols(t) == SelectSeq(t.columns, LAMBDA c : c.numeric)

\* the numbers a column holds
Numbers(col) == { col.values[i].num : i \in { j \in DOMAIN col.values : col.values[j].kind = "num" } }

\* the values of every column named name: df[name] is a frame of them all
\* when there are several
NamedValues(t, name) ==
    UNION { Range(t.columns[i].values) : i \in { j \in DOMAIN t.columns : t.columns[j].name = name } }

Repeated(t, name) == Cardinality({ j \in DOMAIN t.columns : t.columns[j].name = name }) > 1

\* the exception of 'if (df[col] <= 0).any()' for a repeated column name:
\* the comparison fails on a string, and else the truth value of a Series
\* of several elements is ambiguous
RepeatedError(t, name) ==
    IF \E v \in NamedValues(t, name) : v.kind = "str" THEN "TypeError" ELSE "ValueError"

FirstColumnError == [ msg |-> "First column must be named 'Feature'", column |-> << >> ]

NonPositive(col) == [ msg |-> "Column '{col}' contains non-positive values", column |-> col ]

MissingValues == [ msg |-> "Matrix contains missing values", column |-> << >> ]

VeryHigh(col) == [ msg |-> "Column '{col}' has very high LR values (>50)", column |-> col ]

VeryLow(col) == [ msg |-> "Column '{col}' has very low LR values (<0.1)", column |-> col ]

\* the validator raised exception e
Raised(e) == [ raised |-> e, valid |-> FALSE, errors |-> << >>, warnings |-> << >> ]

\* lines 296-305
FirstColumnCheck(t) ==
    IF t.columns[1].name # FeatureCol
    THEN [ raised |-> "", valid |-> FALSE, errors |-> << FirstColumnError >>, warnings |-> << >> ]
    ELSE [ raised |-> "", valid |-> TRUE, errors |-> << >>, warnings |-> << >> ]

\* PositiveLoop leaving valid as it was
RECURSIVE PositiveLoopKeepingValid(_, _, _, _)
PositiveLoopKeepingValid(t, cols, i, st) ==
    IF i > Len(cols) THEN st
    ELSE IF Repeated(t, cols[i].name) THEN Raised(RepeatedError(t, cols[i].name))
    ELSE IF \E v \in Numbers(cols[i]) : v <= 0
         THEN PositiveLoopKeepingValid(t, cols, i + 1,
                                       [ st EXCEPT !.errors = Append(@, NonPositive(cols[i].name)) ])
         ELSE PositiveLoopKeepingValid(t, cols, i + 1, st)

\* lines 309-312 from the i-th numeric column on
RECURSIVE PositiveLoop(_, _, _, _)
PositiveLoop(t, cols, i, st) ==
    IF i > Len(cols) THEN st
    ELSE IF Repeated(t, cols[i].name) THEN Raised(RepeatedError(t, cols[i].name))
    ELSE IF \E v \in Numbers(cols[i]) : v <= 0
         THEN PositiveLoop(t, cols, i + 1,
                           [ st EXCEPT !.errors = Append(@, NonPositive(cols[i].name)),
                                       !.valid = FALSE ])
         ELSE PositiveLoop(t, cols, i + 1, st)

\* lines 315-316
MissingCheck(t, st) ==
    IF \E i \in DOMAIN t.columns : \E j \in DOMAIN t.columns[i].values :
           t.columns[i].values[j].kind = "nan"
    THEN [ st EXCEPT !.warnings = Append(@, MissingValues) ]
    ELSE st

HighCheck(col, st) ==
    IF \E v \in Numbers(col) : v > 5000
    THEN [ st EXCEPT !.warnings = Append(@, VeryHigh(col.name)) ] ELSE st

LowCheck(col, st) ==
    IF \E v \in Numbers(col) : v < 10
    THEN [ st EXCEPT !.warnings = Append(@, VeryLow(col.name)) ] ELSE st

\* lines 319-323 from the i-th numeric column on
RECURSIVE RangeLoop(_, _, _)
RangeLoop(cols, i, st) ==
    IF i > Len(cols) THEN st
    ELSE RangeLoop(cols, i + 1, LowCheck(cols[i], HighCheck(cols[i], st)))

\* lines 314-325, unless an exception was raised before
AfterPositive(t, st) ==
    IF st.raised # "" THEN st ELSE RangeLoop(NumericCols(t), 1, MissingCheck(t, st))

\* validate_lr_matrix_for_simulator(df); df.columns[0] of a frame without
\* columns raises IndexError
Validate(t) ==
    IF t.columns = << >> THEN Raised("IndexError")
    ELSE AfterPositive(t, PositiveLoop(t, NumericCols(t), 1, FirstColumnCheck(t)))

\* --- frames the validator is run on -------------------------------------
\* the largest number of columns of a frame
MaxColumns == 2

\* columns of two rows and of none: labels, good numbers, a negative
\* number, zero and a high number, a low and a missing number, strings
\* with a missing value, a numeric 'Feature' column
ValidatorColumns ==
    { Column(FeatureCol, FALSE, << Text(<< "x" >>), Text(<< "y" >>) >>),
      Column(<< "a", "c" >>, TRUE, << Number(250), Number(250) >>),
      Column(<< "a", "c" >>, TRUE, << Number(0 - 100), Number(250) >>),
      Column(<< "b" >>, TRUE, << Number(0), Number(6000) >>),
      Column(<< "b" >>, TRUE, << Number(5), NaN >>),
      Column(<< "b" >>, FALSE, << Text(<< "x" >>), NaN >>),
      Column(FeatureCol, TRUE, << Number(100), Number(0) >>),
      Column(FeatureCol, FALSE, << >>),
      Column(<< "a", "c" >>, FALSE, << >>),
      Column(<< "a", "c" >>, TRUE, << >>) }

\* every frame of at most MaxColumns of these columns, all of one length
ValidatorTables ==
    { [ columns |-> cols ] :
        cols \in { q \in SeqsUpTo(ValidatorColumns, MaxColumns) :
                     \A i, j \in DOMAIN q : Len(q[i].values) = Len(q[j].values) } }

\* no builder call: the validator alone, on any frame
InitValidate ==
    /\ diagnostic_framework = << >>
    /\ feature_likelihood_ratios = << >>
    /\ tier_level = None
    /\ strict = TRUE
    /\ pc = "validate"
    /\ diagnostic_buckets_display = << >>
    /\ bucket_norm_to_display = << >>
    /\ union_bucket_norm_to_display = << >>
    /\ flrs_iter = << >>
    /\ feature_lr_map = << >>
    /\ iters = << >>
    /\ df = NoFrame
    /\ previous = None
    /\ endpoint = "none"
    /\ table \in ValidatorTables
    /\ validation = None
    /\ prior_probs = None
    /\ response = None
    /\ NoExtra

\* a call of validate_lr_matrix_for_simulator(table)
ValidateTable ==
    /\ pc = "validate"
    /\ validation' = Some(Validate(table))
    /\ pc' = "validated"
    /\ UNCHANGED << args, diagnostic_buckets_display, bucket_norm_to_display,
                    union_bucket_norm_to_display, flrs_iter, feature_lr_map, iters, df,
                    previous, endpoint, table, prior_probs, response, extra >>

NextValidate == ValidateTable

SpecValidate == InitValidate /\ [][NextValidate]_vars

(***************************************************************************)
(* The matrix export endpoints of main.py: export_lr_matrix_csv (656-706), *)
(* export_lr_matrix_excel (708-759), export_session_lr_matrix_csv          *)
(* (844-859) and export_session_lr_matrix_excel (861-876).  Each builds    *)
(* the matrix with strict=True and the tier level of the request, and      *)
(* answers with a file or an error.                                        *)
(***************************************************************************)
CaseCsv == "export_lr_matrix_csv"

CaseExcel == "export_lr_matrix_excel"

SessionCsv == "export_session_lr_matrix_csv"

SessionExcel == "export_session_lr_matrix_excel"

CaseEndpoints == { CaseCsv, CaseExcel }

SessionEndpoints == { SessionCsv, SessionExcel }

\* main.py 674-682: every record handed over by a stored-case endpoint has
\* the key 'tier_level' with getattr(lr, "tier_level", None), which is None:
\* the stored rows (FeatureLikelihoodRatio, database.py 60-70) have no such
\* attribute
StoredRecords(rows) ==
    [ i \in DOMAIN rows |-> [ rows[i] EXCEPT !.has_tier_level = TRUE, !.tier_level = None ] ]

\* the dtype of a column of the built frame: object when the frame has no
\* rows, else a number dtype for columns of floats
IsNumeric(frame, name) ==
    /\ frame.rows # << >>
    /\ \A i \in DOMAIN frame.rows : name = FeatureCol => frame.rows[i].Feature.kind = "num"

\* the built frame as the validator reads it, column by column
FrameColumn(frame, name) ==
    Column(name, IsNumeric(frame, name),
           [ i \in DOMAIN frame.rows |->
               IF name = FeatureCol THEN frame.rows[i].Feature
               ELSE Number(frame.rows[i].cells[name]) ])

FrameTable(frame) ==
    [ columns |-> [ c \in DOMAIN frame.columns |-> FrameColumn(frame, frame.columns[c]) ] ]

\* export_to_excel (lines 237-243): one sheet 'Feature_LR_Matrix' holding
\* the header and the rows, without the index
ExportToExcel(frame) == [ sheet |-> "Feature_LR_Matrix", columns |-> frame.columns, rows |-> frame.rows ]

NoSheet == [ sheet |-> "", columns |-> << >>, rows |-> << >> ]

\* the answers of a handler: a file, or an error with its detail
CsvFile(frame) == [ status |-> 200, media |-> "text/csv", content |-> ExportToCsv(frame), workbook |-> NoSheet, detail |-> "", errors |-> << >> ]

ExcelFile(frame) == [ status |-> 200, media |-> "application/vnd.openxmlformats-officedocument.spreadsheetml.sheet", content |-> << >>, workbook |-> ExportToExcel(frame), detail |-> "", errors |-> << >> ]

InvalidMatrix(errors) == [ status |-> 400, media |-> "", content |-> << >>, workbook |-> NoSheet, detail |-> "Invalid LR matrix: {errors}", errors |-> errors ]

\* an exception that leaves the handler
ServerError(e) == [ status |-> 500, media |-> "", content |-> << >>, workbook |-> NoSheet, detail |-> e, errors |-> << >> ]

FileOf(ep, frame) == IF ep \in { CaseCsv, SessionCsv } THEN CsvFile(frame) ELSE ExcelFile(frame)

\* main.py 696-706 and 749-759, given the validator's result
AnswerValidated(ep, frame, v) ==
    IF v.raised # "" THEN ServerError(v.raised)
    ELSE IF ~ v.valid THEN InvalidMatrix(v.errors)
    ELSE FileOf(ep, frame)

\* main.py 693-706 and 746-759: the stored-case handlers after the matrix
\* is built
ExportCase ==
    /\ pc = "done"
    /\ endpoint \in CaseEndpoints
    /\ response = None
    /\ table' = FrameTable(df)
    /\ validation' = Some(Validate(FrameTable(df)))
    /\ response' = Some(AnswerValidated(endpoint, df, Validate(FrameTable(df))))
    /\ pc' = "answered"
    /\ UNCHANGED << args, diagnostic_buckets_display, bucket_norm_to_display,
                    union_bucket_norm_to_display, flrs_iter, feature_lr_map, iters, df,
                    previous, endpoint, prior_probs, extra >>

\* main.py 854-859 and 871-876: the session handlers after the matrix is
\* built
ExportSession ==
    /\ pc = "done"
    /\ endpoint \in SessionEndpoints
    /\ response = None
    /\ response' = Some(FileOf(endpoint, df))
    /\ pc' = "answered"
    /\ UNCHANGED << args, diagnostic_buckets_display, bucket_norm_to_display,
                    union_bucket_norm_to_display, flrs_iter, feature_lr_map, iters, df,
                    previous, endpoint, table, validation, prior_probs, extra >>

\* --- requests the export endpoints are run on ---------------------------
ExportRecords ==
    { LR(<< "x" >>, CatHistory, << "a", "b" >>, 2500, FALSE, None),
      LR(<< "x" >>, CatHistory, << "b", " ", "c" >>, 0 - 1500, FALSE, None),
      LR(<< "y" >>, CatPhysicalExam, << "a", "c" >>, 0, TRUE, Some(1)),
      LR(<< "y" >>, CatPhysicalExam, << "t", "i", "e", "r", "1", ":", " ", "a", "b" >>, 1234, TRUE, Some(2)),
      LR(<< "y" >>, CatDiagnosticWorkup, << "a" >>, 50006, TRUE, Some(1)) }

\* the tier_level query parameter is an int
ExportLevels == RequestedLevels \ { None }

\* the handler has loaded the case or the session and calls the builder
InitExport ==
    /\ endpoint \in CaseEndpoints \cup SessionEndpoints
    /\ diagnostic_framework \in BuildFrameworks
    /\ \E rows \in SeqsUpTo(ExportRecords, MaxRecords) :
         feature_likelihood_ratios = IF endpoint \in CaseEndpoints THEN StoredRecords(rows) ELSE rows
    /\ tier_level \in ExportLevels
    /\ strict = TRUE
    /\ pc = "resolve"
    /\ diagnostic_buckets_display = << >>
    /\ bucket_norm_to_display = << >>
    /\ union_bucket_norm_to_display = << >>
    /\ flrs_iter = << >>
    /\ feature_lr_map = << >>
    /\ iters = << >>
    /\ df = NoFrame
    /\ previous = None
    /\ table = NoTable
    /\ validation = None
    /\ prior_probs = None
    /\ response = None
    /\ NoExtra

NextExport == Next \/ ExportCase \/ ExportSession

SpecExport == InitExport /\ [][NextExport]_vars

(***************************************************************************)
(* Prior probabilities.  create_prior_probabilities_file                   *)
(* (simulator_export.py 210-231) and the two endpoints that call it,       *)
(* export_prior_probabilities (main.py 761-792) and                        *)
(* export_session_prior_probabilities (main.py 878-891).  A mapping is the *)
(* sequence of its [key, value] items in insertion order; a probability is *)
(* a number of ten-thousandths.                                            *)
(***************************************************************************)
\* the float 1.0 in ten-thousandths
One == 10000

\* the float 0.01 in ten-thousandths
Tolerance == 100

PriorTier(level, probs) ==
    [ tier_level |-> Some(level), buckets |-> << >>, a_priori_probabilities |-> probs ]

Item(key, value) == [ key |-> key, value |-> value ]

\* lines 218-222 from the i-th tier on: the first tier of the level
RECURSIVE TargetLoop(_, _, _)
TargetLoop(fw, T, i) ==
    IF i > Len(fw) THEN None
    ELSE IF fw[i].tier_level = Some(T) THEN Some(fw[i])
    ELSE TargetLoop(fw, T, i + 1)

\* TargetFallback taking the last tier
TargetFallbackLast(fw, target) ==
    IF target # None THEN target
    ELSE IF fw # << >> THEN Some(fw[Len(fw)]) ELSE None

\* lines 224-226
TargetFallback(fw, target) ==
    IF target # None THEN target
    ELSE IF fw # << >> THEN Some(fw[1]) ELSE None

\* lines 228-231
TargetPriors(target) == IF target = None THEN << >> ELSE target[1].a_priori_probabilities

CreatePriorProbabilitiesFile(fw, T) == TargetPriors(TargetFallback(fw, TargetLoop(fw, T, 1)))

\* sum(prior_probs.values())
RECURSIVE TotalProb(_)
TotalProb(m) == IF m = << >> THEN 0 ELSE m[1].value + TotalProb(Tail(m))

Abs(x) == IF x < 0 THEN 0 - x ELSE x

\* n written with w digits
RECURSIVE PadNat(_, _)
PadNat(n, w) == IF w = 0 THEN << >> ELSE PadNat(n \div 10, w - 1) \o << Digits[(n % 10) + 1] >>

\* the w digits of f without their trailing zeros, one digit at least
RECURSIVE StripFrac(_, _)
StripFrac(f, w) == IF w > 1 /\ f % 10 = 0 THEN StripFrac(f \div 10, w - 1) ELSE PadNat(f, w)

Signed(x, text) == IF x < 0 THEN << "-" >> \o text ELSE text

\* repr of the float that is p ten-thousandths
ProbText(p) == Signed(p, NatText(Abs(p) \div One) \o << "." >> \o StripFrac(Abs(p) % One, 4))

\* f"{total_prob:.3f}" when the thousandths are th: total is only used for
\* the sign
Fixed3(total, th) == Signed(total, NatText(th \div 1000) \o << "." >> \o PadNat(th % 1000, 3))

\* the thousandths '.3f' may round total to: the nearest, and either
\* neighbour when total lies halfway between two (the float that holds the
\* sum decides)
Rounded3(total) ==
    IF Abs(total) % 10 = 5 THEN { Abs(total) \div 10, (Abs(total) \div 10) + 1 }
    ELSE IF Abs(total) % 10 < 5 THEN { Abs(total) \div 10 }
    ELSE { (Abs(total) \div 10) + 1 }

\* TooFar with a tolerance of 0.1
TooFarTenth(total) ==
    IF Abs(total - One) = 10 * Tolerance THEN BOOLEAN ELSE { Abs(total - One) > 10 * Tolerance }

\* the outcomes of 'abs(total_prob - 1.0) > 0.01': at a distance of exactly
\* 0.01 the rounding of the float sum decides
TooFar(total) ==
    IF Abs(total - One) = Tolerance THEN BOOLEAN ELSE { Abs(total - One) > Tolerance }

\* a character of a JSON string
JsonChar(c) ==
    IF c = "\"" THEN << "\\", "\"" >>
    ELSE IF c = "\\" THEN << "\\", "\\" >>
    ELSE IF c = "\n" THEN << "\\", "n" >>
    ELSE IF c = "\t" THEN << "\\", "t" >>
    ELSE << c >>

RECURSIVE JsonEscape(_)
JsonEscape(s) == IF s = << >> THEN << >> ELSE JsonChar(s[1]) \o JsonEscape(Tail(s))

JsonString(s) == << "\"" >> \o JsonEscape(s) \o << "\"" >>

\* the lines of the items from the i-th on, indented by two spaces and
\* separated by commas
RECURSIVE JsonItems(_, _)
JsonItems(m, i) ==
    IF i > Len(m) THEN << >>
    ELSE << " ", " " >> \o JsonString(m[i].key) \o << ":", " " >> \o ProbText(m[i].value)
           \o (IF i < Len(m) THEN << "," >> ELSE << >>) \o << "\n" >> \o JsonItems(m, i + 1)

\* json.dumps(prior_probs, indent=2)
JsonDumps(m) ==
    IF m = << >> THEN << "{", "}" >>
    ELSE << "{", "\n" >> \o JsonItems(m, 1) \o << "}" >>

CasePriors == "export_prior_probabilities"

SessionPriors == "export_session_prior_probabilities"

PriorsEndpoints == { CasePriors, SessionPriors }

\* the answers of the priors handlers
NoPriors == [ status |-> 404, media |-> "", content |-> << >>, detail |-> "No prior probabilities found for tier {tier_level}", total |-> << >> ]

BadSum(text) == [ status |-> 400, media |-> "", content |-> << >>, detail |-> "Prior probabilities sum to {total_prob:.3f}, must sum to 1.0", total |-> text ]

PriorsFile(m) == [ status |-> 200, media |-> "application/json", content |-> JsonDumps(m), detail |-> "", total |-> << >> ]

\* main.py 780-792 and 882-891: the answers the handler may give for the
\* mapping m
PriorsAnswers(m) ==
    IF m = << >> THEN { NoPriors }
    ELSE { IF far THEN BadSum(Fixed3(TotalProb(m), th)) ELSE PriorsFile(m) :
             far \in TooFar(TotalProb(m)), th \in Rounded3(TotalProb(m)) }

\* main.py 778-792 and 881-891: the handler calls
\* create_prior_probabilities_file and answers
ExportPriors ==
    /\ pc = "priors"
    /\ prior_probs' = Some(CreatePriorProbabilitiesFile(diagnostic_framework, tier_level[1]))
    /\ response' \in { Some(a) : a \in PriorsAnswers(CreatePriorProbabilitiesFile(diagnostic_framework, tier_level[1])) }
    /\ pc' = "answered"
    /\ UNCHANGED << args, diagnostic_buckets_display, bucket_norm_to_display,
                    union_bucket_norm_to_display, flrs_iter, feature_lr_map, iters, df,
                    previous, endpoint, table, validation, extra >>

\* --- frameworks the priors are taken from -------------------------------
PriorMappings ==
    { << >>,
      << Item(<< "A" >>, 4000), Item(<< "B" >>, 6000) >>,
      << Item(<< "A" >>, 4000), Item(<< "B" >>, 5000) >>,
      << Item(<< "a" >>, 5000), Item(<< "b" >>, 4900) >>,
      << Item(<< "a" >>, 5000), Item(<< "b" >>, 5100) >>,
      << Item(<< "a" >>, 5000), Item(<< "b", " ", "c" >>, 5105) >>,
      << Item(<< "a" >>, 10000) >>,
      << Item(<< "a" >>, 3333), Item(<< "b" >>, 3333), Item(<< "c" >>, 3333) >>,
      << Item(<< "a" >>, 0 - 1000), Item(<< "b" >>, 1) >> }

PriorTiers == { PriorTier(l, m) : l \in 1 .. 2, m \in PriorMappings }

\* the handler has loaded the framework of the case or of the session
InitPriors ==
    /\ endpoint \in PriorsEndpoints
    /\ diagnostic_framework \in SeqsUpTo(PriorTiers, MaxTiers)
    /\ feature_likelihood_ratios = << >>
    /\ tier_level \in ExportLevels
    /\ strict = TRUE
    /\ pc = "priors"
    /\ diagnostic_buckets_display = << >>
    /\ bucket_norm_to_display = << >>
    /\ union_bucket_norm_to_display = << >>
    /\ flrs_iter = << >>
    /\ feature_lr_map = << >>
    /\ iters = << >>
    /\ df = NoFrame
    /\ previous = None
    /\ table = NoTable
    /\ validation = None
    /\ prior_probs = None
    /\ response = None
    /\ NoExtra

NextPriors == ExportPriors

SpecPriors == InitPriors /\ [][NextPriors]_vars

(***************************************************************************)
(* debug_simulator_bucket_matching (main.py 973-1055): the report of how   *)
(* the stored LR records of a case map to the bucket names of a tier.  It  *)
(* reads the stored rows itself and does not call the matrix builder.      *)
(***************************************************************************)
DebugMatchingEndpoint == "debug_simulator_bucket_matching"

\* the cutoff of the suggestion (line 1034)
SuggestionCutoff == << 3, 5 >>

\* the length of sample_unmatched (line 1054)
SampleSize == 20

\* line 997: next((t for t in frameworks if t.tier_level == tier_level), None)
DebugTierAt(fw, hits) == IF hits # { } THEN Some(fw[SetMin(hits)]) ELSE None

DebugTier(fw, T) ==
    IF T # None THEN DebugTierAt(fw, { i \in DOMAIN fw : fw[i].tier_level = T }) ELSE None

\* lines 998-999
DebugTierNames(sel) == IF sel # None THEN TierNames(sel[1]) ELSE << >>

\* lines 1000-1008
DebugNamesOr(fw, names) == IF names # << >> THEN names ELSE UnionNames(fw)

\* selected_names (lines 995-1008)
SelectedNames(fw, T) == DebugNamesOr(fw, DebugTierNames(DebugTier(fw, T)))

\* line 1015: {name: 0 for name in selected_names}
RECURSIVE ZeroCounts(_, _, _)
ZeroCounts(names, i, acc) ==
    IF i > Len(names) THEN acc ELSE ZeroCounts(names, i + 1, MapPut(acc, names[i], 0))

\* lines 1032-1036
Suggestion(nb, norm_map, closest) ==
    IF norm_map # << >> /\ closest # << >> THEN Some(MapGet(norm_map, closest[1])) ELSE None

\* lines 1037-1044
UnmatchedEntry(lr, nb, suggestion) ==
    [ feature_name |-> lr.feature_name, feature_category |-> lr.feature_category,
      diagnostic_bucket |-> lr.diagnostic_bucket, normalized_bucket |-> nb,
      suggested_bucket |-> suggestion, likelihood_ratio |-> lr.likelihood_ratio ]

\* lines 1021-1029 on the state st = [matched, unmatched, bucket_counts]
DebugMatched(st, lr, display) ==
    [ st EXCEPT !.bucket_counts = MapPut(@, display, MapGet(@, display) + 1),
                !.matched = Append(@, [ diagnostic_bucket |-> lr.diagnostic_bucket,
                                        matched_bucket |-> display ]) ]

\* lines 1030-1044
DebugUnmatched(st, lr, nb, norm_map) ==
    [ st EXCEPT !.unmatched =
        Append(@, UnmatchedEntry(lr, nb,
                      Suggestion(nb, norm_map,
                                 GetCloseMatches(nb, MapKeys(norm_map), SuggestionCutoff)))) ]

\* the loop body of lines 1017-1044
DebugRecord(st, lr, nb, norm_map) ==
    IF MapHas(norm_map, nb) THEN DebugMatched(st, lr, MapGet(norm_map, nb))
    ELSE DebugUnmatched(st, lr, nb, norm_map)

\* the loop of lines 1017-1044 from the i-th stored record on
RECURSIVE DebugLoop(_, _, _, _)
DebugLoop(lrs, i, norm_map, st) ==
    IF i > Len(lrs) THEN st
    ELSE DebugLoop(lrs, i + 1, norm_map,
                   DebugRecord(st, lrs[i], Norm(lrs[i].diagnostic_bucket), norm_map))

Head20(seq) == IF Len(seq) > SampleSize THEN SubSeq(seq, 1, SampleSize) ELSE seq

\* lines 1046-1055
DebugReport(T, names, lrs, st) ==
    [ tier_level |-> T,
      selected_buckets |-> names,
      total_lrs |-> Len(lrs),
      matched_count |-> Len(st.matched),
      unmatched_count |-> Len(st.unmatched),
      bucket_match_counts |-> st.bucket_counts,
      sample_unmatched |-> Head20(st.unmatched) ]

\* lines 1010-1055 for the selected names
DebugFrom(T, names, lrs) ==
    DebugReport(T, names, lrs,
                DebugLoop(lrs, 1, BucketNormToDisplay(names),
                          [ matched |-> << >>, unmatched |-> << >>,
                            bucket_counts |-> ZeroCounts(names, 1, << >>) ]))

DebugSimulatorBucketMatching(fw, lrs, T) == DebugFrom(T, SelectedNames(fw, T), lrs)

\* the debug request for the case and tier level whose strict matrix was
\* built
DebugMatching ==
    /\ pc = "done"
    /\ endpoint = DebugMatchingEndpoint
    /\ response = None
    /\ response' = Some(DebugSimulatorBucketMatching(diagnostic_framework, feature_likelihood_ratios, tier_level))
    /\ pc' = "answered"
    /\ UNCHANGED << args, diagnostic_buckets_display, bucket_norm_to_display,
                    union_bucket_norm_to_display, flrs_iter, feature_lr_map, iters, df,
                    previous, endpoint, table, validation, prior_probs, extra >>

\* a stored case: its strict matrix is built as the export handlers build
\* it, and the debug report is asked for the same tier level
InitDebug ==
    /\ endpoint = DebugMatchingEndpoint
    /\ diagnostic_framework \in BuildFrameworks
    /\ \E rows \in SeqsUpTo(ExportRecords, MaxRecords) :
         feature_likelihood_ratios = StoredRecords(rows)
    /\ tier_level \in RequestedLevels
    /\ strict = TRUE
    /\ pc = "resolve"
    /\ diagnostic_buckets_display = << >>
    /\ bucket_norm_to_display = << >>
    /\ union_bucket_norm_to_display = << >>
    /\ flrs_iter = << >>
    /\ feature_lr_map = << >>
    /\ iters = << >>
    /\ df = NoFrame
    /\ previous = None
    /\ table = NoTable
    /\ validation = None
    /\ prior_probs = None
    /\ response = None
    /\ NoExtra

NextDebug == Next \/ DebugMatching

SpecDebug == InitDebug /\ [][NextDebug]_vars

(***************************************************************************)
(* Row labels on their own: one record of each category and name through   *)
(* create_feature_lr_matrix.                                               *)
(***************************************************************************)
LabelNames ==
    { << "h", "i", "s", "t", "o", "r", "y", ":", " ", "x" >>,
      << "x", " ", "h", "i", "s", "t", "o", "r", "y", ":", " ", "y" >>,
      << " ", "Q", "u", "e", "s", "t", "i", "o", "n", ":", "X", " " >>,
      << "t", "e", "s", "t", ":", " ", "y" >>,
      << "y", " ", "t", "e", "s", "t", ":", " ", "z" >>,
      << "p", "h", "y", "s", "i", "c", "a", "l", " ", "e", "x", "a", "m", ":", " ", "z" >>,
      << "z", " ", "p", "h", "y", "s", "i", "c", "a", "l", ":", " ", "w" >>,
      << " ", "X", " ", "y", " " >>,
      << "d", "i", "a", "g", "n", "o", "s", "t", "i", "c", " ", "t", "e", "s", "t", ":", " ", "a" >>,
      << "e", "x", "a", "m", "i", "n", "a", "t", "i", "o", "n", ":", "b" >> }

LabelCategories == { CatHistory, CatPhysicalExam, CatDiagnosticWorkup, "other" }

LabelInputs ==
    { [ fw |-> << Tier(1, << << "a" >> >>) >>, T |-> None, strict |-> TRUE,
        lrs |-> << LR(name, cat, << "a" >>, 2500, FALSE, None) >> ] :
        name \in LabelNames, cat \in LabelCategories }

InitLabel == InitWith(LabelInputs)

SpecLabel == InitLabel /\ [][Next]_vars

(***************************************************************************)
(* The normaliser on its own: one record whose diagnostic_bucket is a      *)
(* label put together from leading whitespace, a tier prefix or something  *)
(* close to one, a gap and a body.                                         *)
(***************************************************************************)
NormLeads == { << >>, << " " >>, << "\t", " " >> }

NormPrefixes ==
    { << >>, << "T", "i", "e", "r", " ", "2", ":" >>, << "t", "i", "e", "r", "1", " ", ":" >>, << "T", "I", "E", "R", ":" >>, << "t", "i", "e", "r", " ", "2" >>, << "t", "i", "e", "r", " ", "1", ":", " ", "T", "i", "e", "r", " ", "2", ":" >> }

NormGaps == { << >>, << " ", " " >> }

NormBodies == { << >>, << "a" >>, << "A", " ", " ", "b" >>, << "a", "\n", "\t", "B", " " >> }

NormLabels == { l \o p \o g \o b : l \in NormLeads, p \in NormPrefixes, g \in NormGaps, b \in NormBodies }

NormInputs ==
    { [ fw |-> << Tier(1, << << "a" >> >>) >>, T |-> None, strict |-> TRUE,
        lrs |-> << LR(<< "x" >>, CatHistory, label, 2500, FALSE, None) >> ] :
        label \in NormLabels }

InitNorm == InitWith(NormInputs)

SpecNorm == InitNorm /\ [][Next]_vars

(***************************************************************************)
(* Inputs with missing fields.  A dict is a record whose fields are the    *)
(* keys present; d[key] on a missing key raises KeyError(key), d.get(key)  *)
(* gives the default.  create_feature_lr_matrix reads the framework with   *)
(* .get (lines 29, 34, 39-40, 65-66) and the LR records with [] (lines     *)
(* 106-111); create_prior_probabilities_file reads the tiers with []       *)
(* (lines 220, 231).                                                       *)
(***************************************************************************)
\* the dict without one of its keys
Without(d, key) == [ k \in DOMAIN d \ { key } |-> d[k] ]

KeyError(key) == [ type |-> "KeyError", key |-> key ]

\* the keys of an LR record in the order the loop body reads them (lines
\* 106, 107, 108, 111)
RecordKeys == << "feature_name", "diagnostic_bucket", "likelihood_ratio", "feature_category" >>

\* the positions of RecordKeys whose key the record lacks
MissingKeys(lr) == { i \in DOMAIN RecordKeys : RecordKeys[i] \notin DOMAIN lr }

\* an iteration of the loop of lines 105-185 on a record that has its keys
ProcessPresent ==
    /\ pc = "rows"
    /\ Len(iters) < Len(flrs_iter)
    /\ MissingKeys(flrs_iter[Len(iters) + 1]) = { }
    /\ ProcessRecord

\* an iteration on a record that lacks a key: the first subscript of lines
\* 106-111 on a missing key raises KeyError and the call ends
RecordKeyError ==
    /\ pc = "rows"
    /\ Len(iters) < Len(flrs_iter)
    /\ MissingKeys(flrs_iter[Len(iters) + 1]) # { }
    /\ raised' = Some(KeyError(RecordKeys[SetMin(MissingKeys(flrs_iter[Len(iters) + 1]))]))
    /\ pc' = "raised"
    /\ UNCHANGED << args, diagnostic_buckets_display, bucket_norm_to_display,
                    union_bucket_norm_to_display, flrs_iter, feature_lr_map, iters, df,
                    previous, endpoint, table, validation, prior_probs, response, shared, service >>

\* lines 219-222 from the i-th tier on: the KeyError of tier['tier_level'],
\* if the loop meets a tier without the key before it stops
RECURSIVE TargetLoopError(_, _, _)
TargetLoopError(fw, T, i) ==
    IF i > Len(fw) THEN None
    ELSE IF "tier_level" \notin DOMAIN fw[i] THEN Some(KeyError("tier_level"))
    ELSE IF fw[i].tier_level = Some(T) THEN None
    ELSE TargetLoopError(fw, T, i + 1)

\* line 231: the KeyError of target_tier['a_priori_probabilities']
TargetPriorsError(target) ==
    IF target # None /\ "a_priori_probabilities" \notin DOMAIN target[1]
    THEN Some(KeyError("a_priori_probabilities")) ELSE None

\* the exception create_prior_probabilities_file raises, if any
PriorsError(fw, T) ==
    IF TargetLoopError(fw, T, 1) # None THEN TargetLoopError(fw, T, 1)
    ELSE TargetPriorsError(TargetFallback(fw, TargetLoop(fw, T, 1)))

\* lines 218-226: the position of the target tier, 0 without one
TargetIndex(fw, T) ==
    IF \E i \in DOMAIN fw : Get(fw[i], "tier_level", None) = Some(T)
    THEN SetMin({ i \in DOMAIN fw : Get(fw[i], "tier_level", None) = Some(T) })
    ELSE IF fw # << >> THEN 1 ELSE 0

\* line 231 returns target_tier['a_priori_probabilities'] itself, the dict
\* of the framework; line 229 returns a new empty dict
ReturnedObject(fw, T) == IF TargetIndex(fw, T) = 0 THEN None ELSE Some(TargetIndex(fw, T))

\* a bare call of create_prior_probabilities_file that returns
CallPriors ==
    /\ pc = "priors_call"
    /\ PriorsError(diagnostic_framework, tier_level[1]) = None
    /\ prior_probs' = Some(CreatePriorProbabilitiesFile(diagnostic_framework, tier_level[1]))
    /\ shared' = ReturnedObject(diagnostic_framework, tier_level[1])
    /\ pc' = "done"
    /\ UNCHANGED << args, diagnostic_buckets_display, bucket_norm_to_display,
                    union_bucket_norm_to_display, flrs_iter, feature_lr_map, iters, df,
                    previous, endpoint, table, validation, response, raised, service >>

\* a bare call of create_prior_probabilities_file that raises
CallPriorsRaises ==
    /\ pc = "priors_call"
    /\ PriorsError(diagnostic_framework, tier_level[1]) # None
    /\ raised' = PriorsError(diagnostic_framework, tier_level[1])
    /\ pc' = "raised"
    /\ UNCHANGED << args, diagnostic_buckets_display, bucket_norm_to_display,
                    union_bucket_norm_to_display, flrs_iter, feature_lr_map, iters, df,
                    previous, endpoint, table, validation, prior_probs, response, shared, service >>

\* --- inputs with and without their fields -------------------------------
FullTier(level) ==
    [ tier_level |-> Some(level), buckets |-> << [ name |-> << "a" >> ] >>,
      a_priori_probabilities |-> << Item(<< "a" >>, 10000) >> ]

\* a tier whose only bucket has no 'name'
NamelessBucketTier ==
    [ tier_level |-> Some(1), buckets |-> << [ description |-> << "d" >> ] >>,
      a_priori_probabilities |-> << Item(<< "a" >>, 10000) >> ]

ShapeTiers ==
    { FullTier(1), FullTier(2), NamelessBucketTier,
      Without(FullTier(1), "tier_level"), Without(FullTier(1), "buckets"),
      Without(FullTier(1), "a_priori_probabilities") }

FullRecord == LR(<< "x" >>, CatHistory, << "a" >>, 2500, FALSE, None)

ShapeRecords ==
    { << >>, << FullRecord >>, << FullRecord, Without(FullRecord, "likelihood_ratio") >> }
        \cup { << Without(FullRecord, RecordKeys[i]) >> : i \in DOMAIN RecordKeys }
        \cup { << Without(Without(FullRecord, "feature_name"), "feature_category") >> }

ShapeLevels == { Some(1), Some(3) }

\* the function of a bare call, in the place of the handler
MatrixCall == "create_feature_lr_matrix"

PriorsCall == "create_prior_probabilities_file"

\* a bare call of one of the two functions
InitShape ==
    /\ diagnostic_framework \in SeqsUpTo(ShapeTiers, MaxTiers)
    /\ tier_level \in ShapeLevels
    /\ strict = TRUE
    /\ \/ endpoint = MatrixCall /\ pc = "resolve" /\ feature_likelihood_ratios \in ShapeRecords
       \/ endpoint = PriorsCall /\ pc = "priors_call" /\ feature_likelihood_ratios = << >>
    /\ diagnostic_buckets_display = << >>
    /\ bucket_norm_to_display = << >>
    /\ union_bucket_norm_to_display = << >>
    /\ flrs_iter = << >>
    /\ feature_lr_map = << >>
    /\ iters = << >>
    /\ df = NoFrame
    /\ previous = None
    /\ table = NoTable
    /\ validation = None
    /\ prior_probs = None
    /\ response = None
    /\ NoExtra

NextShape ==
    \/ Resolve
    \/ BuildMaps
    \/ Filter
    \/ ProcessPresent
    \/ RecordKeyError
    \/ BuildFrame
    \/ CallPriors
    \/ CallPriorsRaises

SpecShape == InitShape /\ [][NextShape]_vars

\* --- the caller changes what a bare call returned ------------------------
\* d[key] = value on a dict: the value of the key, or a new last item
SetItem(d, key, value) ==
    IF \E i \in DOMAIN d : d[i].key = key
    THEN [ i \in DOMAIN d |-> IF d[i].key = key THEN Item(key, value) ELSE d[i] ]
    ELSE Append(d, Item(key, value))

\* the items the caller writes into the returned dict
WrittenItems == { Item(<< "z" >>, 5000), Item(<< "a" >>, 2500) }

\* the caller writes an item into the dict create_prior_probabilities_file
\* returned; the dict is the tier's own wherever line 231 returned it
ModifyReturnedPriors ==
    /\ pc = "done"
    /\ endpoint = PriorsCall
    /\ \E item \in WrittenItems :
         /\ prior_probs' = Some(SetItem(prior_probs[1], item.key, item.value))
         /\ diagnostic_framework' =
              IF shared = None THEN diagnostic_framework
              ELSE [ diagnostic_framework EXCEPT ![shared[1]].a_priori_probabilities =
                                                     SetItem(@, item.key, item.value) ]
    /\ pc' = "modified"
    /\ UNCHANGED << feature_likelihood_ratios, tier_level, strict, diagnostic_buckets_display,
                    bucket_norm_to_display, union_bucket_norm_to_display, flrs_iter,
                    feature_lr_map, iters, df, previous, endpoint, table, validation,
                    response, extra >>

\* the caller drops the rows of the frame create_feature_lr_matrix returned,
\* which lines 196-199 built from the row dicts of line 189
ModifyReturnedFrame ==
    /\ pc = "done"
    /\ endpoint = MatrixCall
    /\ df' = [ df EXCEPT !.rows = << >> ]
    /\ pc' = "modified"
    /\ UNCHANGED << args, diagnostic_buckets_display, bucket_norm_to_display,
                    union_bucket_norm_to_display, flrs_iter, feature_lr_map, iters, caller >>

NextAlias == NextShape \/ ModifyReturnedPriors \/ ModifyReturnedFrame

SpecAlias == InitShape /\ [][NextAlias]_vars


(***************************************************************************)
(* The editing session (app/main.py).  The session of one id is the value  *)
(* of one Redis key; a handler reads it with get and writes it with setex. *)
(* A request is served in steps, one for each call of Redis or of the      *)
(* database and the code up to the next one.                               *)
(***************************************************************************)
\* the state of the export functions, which the session handlers never touch
calls == << args, pc, diagnostic_buckets_display, bucket_norm_to_display, union_bucket_norm_to_display, flrs_iter, feature_lr_map, iters, df, previous, endpoint, table, validation, prior_probs, response, raised, shared >>

\* no export function is being called
NoCalls ==
    /\ diagnostic_framework = << >>
    /\ feature_likelihood_ratios = << >>
    /\ tier_level = None
    /\ strict = FALSE
    /\ pc = "idle"
    /\ diagnostic_buckets_display = << >>
    /\ bucket_norm_to_display = << >>
    /\ union_bucket_norm_to_display = << >>
    /\ flrs_iter = << >>
    /\ feature_lr_map = << >>
    /\ iters = << >>
    /\ df = NoFrame
    /\ previous = None
    /\ endpoint = "none"
    /\ table = NoTable
    /\ validation = None
    /\ prior_probs = None
    /\ response = None
    /\ raised = None
    /\ shared = None

\* models/editing_schemas.py: SessionData
SessionData(case_details, framework, lrs) ==
    [ case_details |-> case_details, diagnostic_framework |-> framework,
      feature_likelihood_ratios |-> lrs, original_input |-> "original_input",
      title |-> None, description |-> None, primary_diagnosis |-> None ]

\* models/editing_schemas.py: CaseEditRequest without its session_id
CaseEditRequest(case_details, framework, lrs, title, description, primary_diagnosis) ==
    [ case_details |-> case_details, diagnostic_framework |-> framework,
      feature_likelihood_ratios |-> lrs, title |-> title, description |-> description,
      primary_diagnosis |-> primary_diagnosis ]

HTTPException(status_code, detail) == [ status_code |-> status_code, detail |-> detail ]

\* str(e) of the exception e
StrOf(e) == [ str |-> e ]

\* the handler returned: status 200 with the returned value as its body
Success(value) == [ status_code |-> 200, detail |-> value ]

\* a request that has not started; redis is how its last Redis call ended
Request(handler, body) ==
    [ handler |-> handler, body |-> body, at |-> "start", redis |-> "unused",
      session_json |-> None, session_data |-> None, case_id |-> 0, response |-> None ]

Respond(req, answer) == [ req EXCEPT !.at = "answered", !.response = Some(answer) ]

\* the truth value of an optional list: None and [] are false
TruthyList(opt) == opt # None /\ opt[1] # << >>

\* edit_case, lines 296-311: the components of the request put into the session
UpdateComponents(sd, body) ==
    [ sd EXCEPT
        !.case_details = IF body.case_details # None THEN body.case_details[1] ELSE @,
        !.diagnostic_framework =
            IF TruthyList(body.diagnostic_framework) THEN body.diagnostic_framework[1] ELSE @,
        !.feature_likelihood_ratios =
            IF TruthyList(body.feature_likelihood_ratios)
            THEN body.feature_likelihood_ratios[1] ELSE @,
        !.title = IF body.title # None THEN body.title ELSE @,
        !.description = IF body.description # None THEN body.description ELSE @,
        !.primary_diagnosis = IF body.primary_diagnosis # None THEN body.primary_diagnosis ELSE @ ]

\* edit_case, lines 283-294: what the inner try raises.  The 404 of line 290
\* is raised inside the try and caught by line 292, which raises the 503.
RetrieveError(ok, session_json) ==
    IF ~ok \/ session_json = None
    THEN Some(HTTPException(503, "Session service unavailable")) ELSE None

\* edit_case, lines 278-294 and 327-328: the answer for an exception raised
\* up to the read; every exception passes the except of line 327
EditRetrieveAnswer(client, ok, session_json) ==
    IF ~client
    THEN Some(HTTPException(500, StrOf(HTTPException(503, "Redis service unavailable"))))
    ELSE IF RetrieveError(ok, session_json) # None
    THEN Some(HTTPException(500, StrOf(RetrieveError(ok, session_json)[1])))
    ELSE None

\* edit_case, lines 278-311: the read of the session and the update of the copy
EditGet ==
    \E r \in DOMAIN requests, ok \in BOOLEAN :
       /\ requests[r].handler = "edit_case"
       /\ requests[r].at = "start"
       /\ requests' =
            [ requests EXCEPT ![r] =
                IF EditRetrieveAnswer(redis_client, ok, store) # None
                THEN [ Respond(@, EditRetrieveAnswer(redis_client, ok, store)[1]) EXCEPT
                         !.redis = IF ~redis_client THEN "unused"
                                   ELSE IF ok THEN "ok" ELSE "failed" ]
                ELSE [ @ EXCEPT !.at = "save", !.redis = "ok", !.session_json = store,
                                !.session_data = Some(UpdateComponents(store[1], requests[r].body)) ] ]
       /\ UNCHANGED << calls, redis_client, store, database >>

\* edit_case, lines 313-328: setex and the answer
EditSet ==
    \E r \in DOMAIN requests, ok \in BOOLEAN :
       /\ requests[r].handler = "edit_case"
       /\ requests[r].at = "save"
       /\ store' = IF ok THEN requests[r].session_data ELSE store
       /\ requests' =
            [ requests EXCEPT ![r] =
                IF ok THEN Respond(@, Success("Case updated successfully"))
                ELSE [ Respond(@, HTTPException(500, StrOf(HTTPException(503, "Failed to save session data"))))
                         EXCEPT !.redis = "failed" ] ]
       /\ UNCHANGED << calls, redis_client, database >>

\* get_session_data, lines 330-352: the answer.  The 404 of line 341 is
\* raised inside the try and caught by line 350.
SessionAnswer(client, ok, session_json) ==
    IF ~client THEN HTTPException(503, "Redis service unavailable")
    ELSE IF ~ok \/ session_json = None THEN HTTPException(503, "Session service unavailable")
    ELSE Success([ case_details |-> session_json[1].case_details,
                    diagnostic_framework |-> session_json[1].diagnostic_framework,
                    feature_likelihood_ratios |-> session_json[1].feature_likelihood_ratios ])

\* GET /session/{session_id}
GetSessionData ==
    \E r \in DOMAIN requests, ok \in BOOLEAN :
       /\ requests[r].handler = "get_session_data"
       /\ requests[r].at = "start"
       /\ requests' =
            [ requests EXCEPT ![r] =
                [ Respond(@, SessionAnswer(redis_client, ok, store)) EXCEPT
                    !.redis = IF ~redis_client THEN "unused" ELSE IF ok THEN "ok" ELSE "failed",
                    !.session_json = IF redis_client /\ ok THEN store ELSE None ] ]
       /\ UNCHANGED << calls, redis_client, store, database >>

\* --- sessions and requests -----------------------------------------------
Details(presentation) == [ presentation |-> presentation ]

OtherRecord == LR(<< "y" >>, CatHistory, << "a" >>, 500, TRUE, Some(2))

StoredSession == SessionData(Details(<< "p" >>), << FullTier(1) >>, << FullRecord >>)

EditRequests ==
    { CaseEditRequest(cd, fw, lrs, title, None, diagnosis) :
        cd \in { None, Some(Details(<< "q" >>)) },
        fw \in { None, Some(<< >>), Some(<< FullTier(2) >>) },
        lrs \in { None, Some(<< >>), Some(<< OtherRecord >>) },
        title \in { None, Some(<< >>), Some(<< "t" >>) },
        diagnosis \in { None, Some(<< "d" >>) } }

\* one request to edit-case or to GET /session/{id}, for a session that is
\* stored or is not
InitSession ==
    /\ NoCalls
    /\ redis_client \in BOOLEAN
    /\ store \in { None, Some(StoredSession) }
    /\ database = NoRows
    /\ requests \in { << Request("edit_case", body) >> : body \in EditRequests }
                       \cup { << Request("get_session_data", None) >> }

NextSession == EditGet \/ EditSet \/ GetSessionData

SpecSession == InitSession /\ [][NextSession]_vars

\* --- regenerate-lrs --------------------------------------------------------
\* models/editing_schemas.py: RegenerateLRRequest without its session_id
RegenerateLRRequest(case_details, framework) ==
    [ case_details |-> case_details, diagnostic_framework |-> framework ]

\* regenerate_lrs, lines 909-915: the session read from Redis, if any
RegenerateLoaded(client, ok, session_json) ==
    IF client /\ ok THEN session_json ELSE None

\* regenerate_lrs, lines 917-925: the session built from the payload when
\* none was read, if the payload has both parts
RegenerateFallback(loaded, body) ==
    IF loaded # None THEN loaded
    ELSE IF body.case_details # None /\ TruthyList(body.diagnostic_framework)
    THEN Some([ SessionData(body.case_details[1], body.diagnostic_framework[1], << >>)
                  EXCEPT !.original_input = "empty_input" ])
    ELSE None

\* regenerate_lrs, lines 905-925: the read of the session
RegenerateGet ==
    \E r \in DOMAIN requests, ok \in BOOLEAN :
       /\ requests[r].handler = "regenerate_lrs"
       /\ requests[r].at = "start"
       /\ requests' =
            [ requests EXCEPT ![r] =
                IF RegenerateFallback(RegenerateLoaded(redis_client, ok, store), requests[r].body) = None
                THEN [ Respond(@, HTTPException(400, "Session not found and no case/framework provided"))
                         EXCEPT !.redis = IF ~redis_client THEN "unused"
                                          ELSE IF ok THEN "ok" ELSE "failed" ]
                ELSE [ @ EXCEPT !.at = "llm",
                                !.redis = IF ~redis_client THEN "unused"
                                          ELSE IF ok THEN "ok" ELSE "failed",
                                !.session_json = RegenerateLoaded(redis_client, ok, store),
                                !.session_data = RegenerateFallback(RegenerateLoaded(redis_client, ok, store), requests[r].body) ] ]
       /\ UNCHANGED << calls, redis_client, store, database >>

\* what llm_service.generate_feature_likelihood_ratios may return
RegeneratedLists == { << LR(<< "z" >>, CatHistory, << "a" >>, 3000, TRUE, Some(1)) >> }

\* regenerate_lrs, lines 927-971, for a case and a framework of the expected
\* structure: the LLM call, setex of the session that was read with the new
\* list, and the answer.  A failure of setex is only logged (line 968).
RegenerateSet ==
    \E r \in DOMAIN requests, ok \in BOOLEAN, flr_list \in RegeneratedLists \cup { None } :
       /\ requests[r].handler = "regenerate_lrs"
       /\ requests[r].at = "llm"
       /\ store' = IF flr_list # None /\ redis_client /\ ok
                   THEN Some([ requests[r].session_data[1] EXCEPT !.feature_likelihood_ratios = flr_list ])
                   ELSE store
       /\ requests' =
            [ requests EXCEPT ![r] =
                IF flr_list = None
                THEN Respond(@, HTTPException(500, "Failed to regenerate likelihood ratios"))
                ELSE [ Respond(@, Success(flr_list)) EXCEPT
                         !.redis = IF ~redis_client THEN "unused" ELSE IF ok THEN "ok" ELSE "failed",
                         !.session_data = IF redis_client
                                          THEN Some([ requests[r].session_data[1] EXCEPT !.feature_likelihood_ratios = flr_list ])
                                          ELSE requests[r].session_data ] ]
       /\ UNCHANGED << calls, redis_client, database >>

\* an edit-case request that changes one component
SingleEdits ==
    { CaseEditRequest(Some(Details(<< "q" >>)), None, None, None, None, None),
      CaseEditRequest(None, Some(<< FullTier(2) >>), None, None, None, None),
      CaseEditRequest(None, None, Some(<< OtherRecord >>), None, None, None),
      CaseEditRequest(None, None, None, Some(<< "t" >>), None, None) }

RegenerateRequests ==
    { RegenerateLRRequest(None, None),
      RegenerateLRRequest(Some(Details(<< "q" >>)), Some(<< FullTier(2) >>)) }

\* two requests that write the same session: two edit-case requests, or an
\* edit-case and a regenerate-lrs
InitInterleave ==
    /\ NoCalls
    /\ redis_client = TRUE
    /\ store \in { None, Some(StoredSession) }
    /\ database = NoRows
    /\ requests \in { << Request("edit_case", a), Request("edit_case", b) >> :
                        a \in SingleEdits, b \in SingleEdits }
                       \cup { << Request("edit_case", a), Request("regenerate_lrs", b) >> :
                                a \in SingleEdits, b \in RegenerateRequests }

NextInterleave == EditGet \/ EditSet \/ RegenerateGet \/ RegenerateSet

SpecInterleave == InitInterleave /\ [][NextInterleave]_vars

\* --- finalize-case -------------------------------------------------------
\* models/editing_schemas.py: CaseSaveRequest without its session_id,
\* title, description and primary_diagnosis
CaseSaveRequest(case_details, framework, lrs) ==
    [ case_details |-> case_details, diagnostic_framework |-> framework,
      feature_likelihood_ratios |-> lrs ]

\* finalize_case, lines 363-374: the session read from Redis, if any
FinalizeLoaded(client, ok, session_json) ==
    IF client /\ ok THEN session_json ELSE None

\* finalize_case, lines 377-386: the session built from the payload when
\* none was read, if the payload has its three parts
FinalizeFallback(loaded, body) ==
    IF loaded # None THEN loaded
    ELSE IF body.case_details # None /\ TruthyList(body.diagnostic_framework)
                                     /\ TruthyList(body.feature_likelihood_ratios)
    THEN Some([ SessionData(body.case_details[1], body.diagnostic_framework[1],
                            body.feature_likelihood_ratios[1])
                  EXCEPT !.original_input = "request_input" ])
    ELSE None

\* finalize_case, lines 358-386
FinalizeLoad ==
    \E r \in DOMAIN requests, ok \in BOOLEAN :
       /\ requests[r].handler = "finalize_case"
       /\ requests[r].at = "start"
       /\ requests' =
            [ requests EXCEPT ![r] =
                IF FinalizeFallback(FinalizeLoaded(redis_client, ok, store), requests[r].body) = None
                THEN [ Respond(@, HTTPException(503, "Session unavailable and no case data provided. Please retry from Edit flow."))
                         EXCEPT !.redis = IF ~redis_client THEN "unused"
                                          ELSE IF ok THEN "ok" ELSE "failed" ]
                ELSE [ @ EXCEPT !.at = "save_case",
                                !.redis = IF ~redis_client THEN "unused"
                                          ELSE IF ok THEN "ok" ELSE "failed",
                                !.session_json = FinalizeLoaded(redis_client, ok, store),
                                !.session_data = FinalizeFallback(FinalizeLoaded(redis_client, ok, store), requests[r].body) ] ]
       /\ UNCHANGED << calls, redis_client, store, database >>

\* the answer of line 449 to an exception of the save steps
SaveFailed(e) == HTTPException(500, StrOf(e))

\* the exception of a database call that retry_db_operation (lines 116-127)
\* gave up on or did not retry
DatabaseError == [ type |-> "OperationalError", key |-> "" ]

\* finalize_case, lines 388-402: the case is added and committed, or the
\* commit raises
SaveCase ==
    \E r \in DOMAIN requests, ok \in BOOLEAN :
       /\ requests[r].handler = "finalize_case"
       /\ requests[r].at = "save_case"
       /\ database' =
            IF ok
            THEN [ database EXCEPT !.cases =
                     Append(@, [ id |-> Len(@) + 1,
                                 case_details |-> requests[r].session_data[1].case_details ]) ]
            ELSE database
       /\ requests' =
            [ requests EXCEPT ![r] =
                IF ok THEN [ @ EXCEPT !.at = "save_frameworks", !.case_id = Len(database.cases) + 1 ]
                ELSE Respond(@, SaveFailed(DatabaseError)) ]
       /\ UNCHANGED << calls, redis_client, store >>

TierKeys == << "tier_level", "buckets", "a_priori_probabilities" >>

\* save_frameworks, lines 406-413: the KeyError of the first tier that lacks
\* a key, if any
FrameworksError(framework) ==
    IF \E i \in DOMAIN framework, k \in DOMAIN TierKeys : TierKeys[k] \notin DOMAIN framework[i]
    THEN Some(KeyError(TierKeys[SetMin({ k \in DOMAIN TierKeys :
                 TierKeys[k] \notin DOMAIN framework[SetMin({ i \in DOMAIN framework :
                     \E j \in DOMAIN TierKeys : TierKeys[j] \notin DOMAIN framework[i] })] })]))
    ELSE None

\* finalize_case, lines 404-416: the tiers are added and committed together,
\* or building one or the commit raises and none is stored
SaveFrameworks ==
    \E r \in DOMAIN requests, ok \in BOOLEAN :
       /\ requests[r].handler = "finalize_case"
       /\ requests[r].at = "save_frameworks"
       /\ database' =
            IF ok /\ FrameworksError(requests[r].session_data[1].diagnostic_framework) = None
            THEN [ database EXCEPT !.frameworks =
                     @ \o [ i \in DOMAIN requests[r].session_data[1].diagnostic_framework |->
                              [ case_id |-> requests[r].case_id,
                                tier |-> requests[r].session_data[1].diagnostic_framework[i] ] ] ]
            ELSE database
       /\ requests' =
            [ requests EXCEPT ![r] =
                IF FrameworksError(requests[r].session_data[1].diagnostic_framework) # None
                THEN Respond(@, SaveFailed(FrameworksError(requests[r].session_data[1].diagnostic_framework)[1]))
                ELSE IF ok THEN [ @ EXCEPT !.at = "save_feature_lrs" ]
                ELSE Respond(@, SaveFailed(DatabaseError)) ]
       /\ UNCHANGED << calls, redis_client, store >>

\* save_feature_lrs, lines 420-429: what building the first record raises.
\* The four subscripts are evaluated first; then the constructor is given
\* tier_level, which models/database.py, lines 60-70, does not declare, and
\* the declarative constructor raises TypeError for a keyword that is no
\* attribute of the class.
FeatureLrsError(lrs) ==
    IF lrs = << >> THEN None
    ELSE IF MissingKeys(lrs[1]) # { }
    THEN Some(KeyError(RecordKeys[SetMin(MissingKeys(lrs[1]))]))
    ELSE Some([ type |-> "TypeError", key |-> "tier_level" ])

\* finalize_case, lines 418-433: the LR records are added and committed
\* together, or building one or the commit raises and none is stored
SaveFeatureLrs ==
    \E r \in DOMAIN requests, ok \in BOOLEAN :
       /\ requests[r].handler = "finalize_case"
       /\ requests[r].at = "save_feature_lrs"
       /\ database' =
            IF ok /\ FeatureLrsError(requests[r].session_data[1].feature_likelihood_ratios) = None
            THEN [ database EXCEPT !.feature_lrs =
                     @ \o [ i \in DOMAIN requests[r].session_data[1].feature_likelihood_ratios |->
                              [ case_id |-> requests[r].case_id,
                                lr |-> requests[r].session_data[1].feature_likelihood_ratios[i] ] ] ]
            ELSE database
       /\ requests' =
            [ requests EXCEPT ![r] =
                IF FeatureLrsError(requests[r].session_data[1].feature_likelihood_ratios) # None
                THEN Respond(@, SaveFailed(FeatureLrsError(requests[r].session_data[1].feature_likelihood_ratios)[1]))
                ELSE IF ok THEN [ @ EXCEPT !.at = "cleanup" ]
                ELSE Respond(@, SaveFailed(DatabaseError)) ]
       /\ UNCHANGED << calls, redis_client, store >>

\* finalize_case, lines 435-447: the session is deleted, an exception of
\* the delete being only logged, and the case is returned
FinalizeCleanup ==
    \E r \in DOMAIN requests, ok \in BOOLEAN :
       /\ requests[r].handler = "finalize_case"
       /\ requests[r].at = "cleanup"
       /\ store' = IF redis_client /\ ok THEN None ELSE store
       /\ requests' =
            [ requests EXCEPT ![r] =
                [ Respond(@, Success(requests[r].case_id)) EXCEPT
                    !.redis = IF ~redis_client THEN "unused" ELSE IF ok THEN "ok" ELSE "failed" ] ]
       /\ UNCHANGED << calls, redis_client, database >>

\* a stored session without LR records
SessionWithoutLrs == SessionData(Details(<< "p" >>), << FullTier(1), FullTier(2) >>, << >>)

FinalizeRequests ==
    { CaseSaveRequest(None, None, None),
      CaseSaveRequest(Some(Details(<< "q" >>)), Some(<< FullTier(1) >>), Some(<< OtherRecord >>)),
      CaseSaveRequest(Some(Details(<< "q" >>)), Some(<< FullTier(1), Without(FullTier(2), "buckets") >>),
                      Some(<< Without(FullRecord, "feature_name") >>)),
      CaseSaveRequest(Some(Details(<< "q" >>)), Some(<< FullTier(1) >>),
                      Some(<< Without(FullRecord, "likelihood_ratio") >>)) }

\* one request to finalize-case, for a session that is stored or is not
InitFinalize ==
    /\ NoCalls
    /\ redis_client \in BOOLEAN
    /\ store \in { None, Some(StoredSession), Some(SessionWithoutLrs) }
    /\ database = NoRows
    /\ requests \in { << Request("finalize_case", body) >> : body \in FinalizeRequests }

NextFinalize == FinalizeLoad \/ SaveCase \/ SaveFrameworks \/ SaveFeatureLrs \/ FinalizeCleanup

SpecFinalize == InitFinalize /\ [][NextFinalize]_vars

\* --- bucket names that differ only in what the normaliser removes ---------
ExactNames ==
    { << "a" >>, << "A" >>, << "T", "i", "e", "r", " ", "1", ":", " ", "a" >>, << "b" >> }

\* one tier of level 1; the record names one of the bucket names
ExactInputs ==
    { [ fw |-> << Tier(1, names) >>, T |-> Some(1), strict |-> st,
        lrs |-> << LR(<< "x" >>, CatHistory, label, 2500, FALSE, None) >> ] :
        names \in SeqsUpTo(ExactNames, MaxBuckets), st \in BOOLEAN, label \in ExactNames }

InitExact == InitWith(ExactInputs)

SpecExact == InitExact /\ [][Next]_vars

(***************************************************************************)
(* Properties.                                                             *)
(***************************************************************************)
\* the row label of the k-th processed record
LabelOf(k) == StandardizedFeature(flrs_iter[k].feature_name, flrs_iter[k].feature_category)

\* the normalised names of the resolved buckets
NormNames == { Norm(n) : n \in Range(diagnostic_buckets_display) }

\* the last resolved bucket whose normalised name is key
LastNamed(key) ==
    diagnostic_buckets_display[
        SetMax({ j \in DOMAIN diagnostic_buckets_display :
                   Norm(diagnostic_buckets_display[j]) = key })]

\* some stage after the exact match called _closest in iteration it
AnyStageCalled(it) == it.fuzzy.called \/ it.union.called \/ it.projection.called

\* C1: every cell of every bucket column of a returned table is >= 0.01,
\* whatever the likelihood_ratio values of the input were.
C1_CellsAtLeastMin ==
    pc = "done" =>
        \A i \in DOMAIN df.rows : \A b \in DOMAIN df.rows[i].cells :
            df.rows[i].cells[b] >= 1

\* a table is returned in which a matched record with a likelihood ratio
\* that rounds to zero or less was the last to write its cell, which holds 0.01
C1_Witness ==
    /\ pc = "done"
    /\ \E k \in DOMAIN iters :
         /\ k = Len(iters)
         /\ TruthyOpt(iters[k].display_bucket)
         /\ Round2(flrs_iter[k].likelihood_ratio) <= 0
         /\ \E i \in DOMAIN df.rows :
              /\ df.rows[i].Feature = Text(LabelOf(k))
              /\ df.rows[i].cells[iters[k].display_bucket[1]] = 1

\* C2: in strict mode a record changes a cell only if its normalised bucket
\* is the normalised name of a resolved bucket; for any other record no
\* fuzzy or cross-tier stage is consulted and the cells stay at 1.0.
C2_StrictOnlyExact ==
    strict =>
        /\ \A k \in DOMAIN iters :
             /\ ~AnyStageCalled(iters[k])
             /\ iters[k].display_bucket # None =>
                    Norm(flrs_iter[k].diagnostic_bucket) \in NormNames
        /\ \A i \in DOMAIN feature_lr_map : \A b \in DOMAIN feature_lr_map[i].cells :
             feature_lr_map[i].cells[b] # 100 =>
                \E k \in DOMAIN iters :
                    /\ LabelOf(k) = feature_lr_map[i].Feature
                    /\ Norm(flrs_iter[k].diagnostic_bucket) = Norm(b)

\* a strict call has processed a record that has no exact match but a
\* bucket at similarity >= 0.5, and left its row at 1.0
C2_Witness ==
    /\ strict
    /\ \E k \in DOMAIN iters :
         /\ Norm(flrs_iter[k].diagnostic_bucket) \notin NormNames
         /\ \E key \in NormNames :
              FracGeq(Ratio(key, Norm(flrs_iter[k].diagnostic_bucket)), << 1, 2 >>)
         /\ iters[k].logged = "unmatched"
         /\ \E i \in DOMAIN feature_lr_map :
              /\ feature_lr_map[i].Feature = LabelOf(k)
              /\ \A b \in DOMAIN feature_lr_map[i].cells : feature_lr_map[i].cells[b] = 100

\* C3: a record whose normalised bucket is a key of the selected tier's map
\* resolves to that key's display name, in strict and in non-strict mode,
\* and no fuzzy or cross-tier stage is invoked for it.
C3_ExactMatch ==
    \A k \in DOMAIN iters :
        Norm(flrs_iter[k].diagnostic_bucket) \in NormNames =>
            /\ iters[k].display_bucket =
                    Some(LastNamed(Norm(flrs_iter[k].diagnostic_bucket)))
            /\ ~AnyStageCalled(iters[k])

\* a non-strict call has matched exactly a label that is no bucket name as
\* written (it differs in case and whitespace)
C3_Witness ==
    /\ ~strict
    /\ \E k \in DOMAIN iters :
         /\ flrs_iter[k].diagnostic_bucket \notin Range(diagnostic_buckets_display)
         /\ iters[k].logged = "exact"
         /\ iters[k].display_bucket # None
         /\ Norm(iters[k].display_bucket[1]) = Norm(flrs_iter[k].diagnostic_bucket)

\* the token overlap of q and key, 0 when either has no token
JScore(q, key) ==
    IF Tokens(q) = {} \/ Tokens(key) = {} THEN << 0, 1 >> ELSE Jaccard(q, key)

\* result is a key of keys most similar to q, at a similarity of at least sim
BySimilarity(result, q, keys, sim) ==
    /\ result # None
    /\ result[1] \in Range(keys)
    /\ FracGeq(Ratio(result[1], q), sim)
    /\ \A key \in Range(keys) : FracGeq(Ratio(result[1], q), Ratio(key, q))

\* no key reaches similarity sim, and result is a key of keys with the best
\* token overlap with q, at an overlap of at least jac
ByOverlap(result, q, keys, sim, jac) ==
    /\ result # None
    /\ result[1] \in Range(keys)
    /\ \A key \in Range(keys) : ~FracGeq(Ratio(key, q), sim)
    /\ FracGeq(JScore(q, result[1]), jac)
    /\ \A key \in Range(keys) : FracGeq(JScore(q, result[1]), JScore(q, key))

\* result is none, and no key reaches similarity sim or overlap jac
ByNeither(result, q, keys, sim, jac) ==
    /\ result = None
    /\ \A key \in Range(keys) : ~FracGeq(Ratio(key, q), sim) /\ ~FracGeq(JScore(q, key), jac)

\* the two-stage match of q against keys with the cutoffs sim and jac
TwoStage(result, q, keys, sim, jac) ==
    \/ BySimilarity(result, q, keys, sim)
    \/ ByOverlap(result, q, keys, sim, jac)
    \/ ByNeither(result, q, keys, sim, jac)

\* C4 as stated: the in-tier fuzzy stage returns a closest-string candidate
\* only at similarity >= 0.6, else the best token overlap candidate only at
\* overlap >= 0.5, else none.
C4_Original ==
    \A k \in DOMAIN iters :
        iters[k].fuzzy.called =>
            TwoStage(iters[k].fuzzy.key, iters[k].norm_bucket,
                     MapKeys(bucket_norm_to_display), << 3, 5 >>, << 1, 2 >>)

\* C4 as amended: the in-tier fuzzy stage returns a closest-string candidate
\* only at similarity >= 0.5, else the best token overlap candidate only at
\* overlap >= 0.5, else none.
C4_InTierFuzzy ==
    \A k \in DOMAIN iters :
        iters[k].fuzzy.called =>
            TwoStage(iters[k].fuzzy.key, iters[k].norm_bucket,
                     MapKeys(bucket_norm_to_display), << 1, 2 >>, << 1, 2 >>)

\* the in-tier fuzzy stage has returned a candidate whose similarity to the
\* label is at least 0.5 and less than 0.6
C4_Witness ==
    \E k \in DOMAIN iters :
        /\ iters[k].fuzzy.called
        /\ iters[k].fuzzy.key # None
        /\ FracGeq(Ratio(iters[k].fuzzy.key[1], iters[k].norm_bucket), << 1, 2 >>)
        /\ ~FracGeq(Ratio(iters[k].fuzzy.key[1], iters[k].norm_bucket), << 3, 5 >>)
        /\ iters[k].logged = "fuzzy"

\* the display name that a key of the selected tier's map stands for, none for none
Shown(key) == IF key = None THEN None ELSE Some(LastNamed(key[1]))

\* C5 as stated: a union hit outside the selected set resolves to what the
\* exact match, then similarity at the cutoff of the in-tier stage, then
\* token overlap >= 0.5 give for the union label against the selected
\* tier's map; a union hit inside the selected set is used directly.
C5_Original ==
    \A k \in DOMAIN iters :
        /\ iters[k].projection.called =>
             /\ TwoStage(iters[k].projection.key, Norm(iters[k].union_display[1]),
                         MapKeys(bucket_norm_to_display), << 1, 2 >>, << 1, 2 >>)
             /\ iters[k].display_bucket = Shown(iters[k].projection.key)
        /\ (iters[k].union.key # None /\ iters[k].union.key[1] \in NormNames) =>
             iters[k].display_bucket = Shown(iters[k].union.key)

\* C5 as amended: a union hit outside the selected set resolves to what
\* similarity >= 0.4, then token overlap >= 0.4 give for the union label
\* against the selected tier's map; a union hit inside the selected set is
\* used directly.
C5_Projection ==
    \A k \in DOMAIN iters :
        /\ iters[k].projection.called =>
             /\ iters[k].union.key # None
             /\ iters[k].union.key[1] \notin NormNames
             /\ TwoStage(iters[k].projection.key, Norm(iters[k].union_display[1]),
                         MapKeys(bucket_norm_to_display), << 2, 5 >>, << 2, 5 >>)
             /\ iters[k].display_bucket = Shown(iters[k].projection.key)
        /\ (iters[k].union.key # None /\ iters[k].union.key[1] \in NormNames) =>
             iters[k].display_bucket = Shown(iters[k].union.key)

\* a union hit outside the selected set has been projected onto a selected
\* bucket whose similarity to the union label is at least 0.4 and less than
\* 0.5, and whose token overlap with it is less than 0.5
C5_Witness ==
    \E k \in DOMAIN iters :
        /\ iters[k].projection.called
        /\ iters[k].projection.key # None
        /\ ~FracGeq(Ratio(iters[k].projection.key[1], Norm(iters[k].union_display[1])), << 1, 2 >>)
        /\ ~FracGeq(JScore(Norm(iters[k].union_display[1]), iters[k].projection.key[1]), << 1, 2 >>)
        /\ iters[k].display_bucket = Some(LastNamed(iters[k].projection.key[1]))
        /\ iters[k].logged = "cross"

\* the position of key in keys
PosIn(keys, key) == SetMin({ j \in DOMAIN keys : keys[j] = key })

\* result, returned for q out of keys with the cutoff sim, is the first key
\* in the order of keys among those with its score: its similarity if it
\* reaches sim, else its token overlap
FirstOfTies(result, q, keys, sim) ==
    result # None =>
        \A j \in 1 .. PosIn(keys, result[1]) - 1 :
            IF FracGeq(Ratio(result[1], q), sim)
            THEN ~FracEq(Ratio(keys[j], q), Ratio(result[1], q))
            ELSE ~FracEq(JScore(q, keys[j]), JScore(q, result[1]))

\* C6: when several candidate keys tie on the best score, in the
\* closest-string stage or in the token overlap stage, the matcher returns
\* the one that comes first in the candidate map's iteration order.
C6_FirstOnTie ==
    \A k \in DOMAIN iters :
        /\ iters[k].fuzzy.called =>
             FirstOfTies(iters[k].fuzzy.key, iters[k].norm_bucket,
                         MapKeys(bucket_norm_to_display), << 1, 2 >>)
        /\ iters[k].union.called =>
             FirstOfTies(iters[k].union.key, iters[k].norm_bucket,
                         MapKeys(union_bucket_norm_to_display), << 1, 2 >>)
        /\ iters[k].projection.called =>
             FirstOfTies(iters[k].projection.key, Norm(iters[k].union_display[1]),
                         MapKeys(bucket_norm_to_display), << 2, 5 >>)

\* the bucket names of a tier that are not empty, in source order
NamedBuckets(tier) ==
    SelectSeq([ i \in DOMAIN tier.buckets |-> tier.buckets[i].name ], LAMBDA n : n # << >>)

\* the tiers of the framework that carry the requested level
Carriers == { i \in DOMAIN diagnostic_framework : diagnostic_framework[i].tier_level = tier_level }

\* the bucket list has been resolved
Resolved == pc # "resolve"

\* C7 as stated: for a requested level that some tier carries, the resolved
\* bucket list is exactly the non-empty bucket names of such a tier in
\* source order, nothing added, dropped, reordered or de-duplicated.
C7_Original ==
    (Resolved /\ tier_level # None /\ Carriers # {}) =>
        \E i \in Carriers :
            diagnostic_buckets_display = NamedBuckets(diagnostic_framework[i])

\* C7 as amended: when the first tier carrying the requested level has a
\* non-empty bucket name, the resolved bucket list is exactly the non-empty
\* bucket names of that tier in source order.
C7_TierBuckets ==
    (Resolved /\ tier_level # None /\ Carriers # {}
       /\ NamedBuckets(diagnostic_framework[SetMin(Carriers)]) # << >>) =>
        diagnostic_buckets_display = NamedBuckets(diagnostic_framework[SetMin(Carriers)])

\* the list resolved for a carried level holds the same name twice and
\* leaves out a name of another tier
C7_Witness ==
    /\ Resolved /\ tier_level # None /\ Carriers # {}
    /\ \E i, j \in DOMAIN diagnostic_buckets_display :
         i # j /\ diagnostic_buckets_display[i] = diagnostic_buckets_display[j]
    /\ \E n \in Range(AllNames(diagnostic_framework)) :
         n # << >> /\ n \notin Range(diagnostic_buckets_display)

\* C8: for a non-empty framework and a requested level that no tier
\* carries, the resolved bucket list is the one resolved for the level of
\* the framework's first tier.
C8_MissingTierFallback ==
    (Resolved /\ tier_level # None /\ Carriers = {} /\ diagnostic_framework # << >>) =>
        diagnostic_buckets_display =
            ResolveBuckets(diagnostic_framework, diagnostic_framework[1].tier_level)

\* a level that no tier carries has resolved to the names of the first of
\* two tiers, which the second tier does not share
C8_Witness ==
    /\ Resolved /\ tier_level # None /\ Carriers = {}
    /\ Len(diagnostic_framework) = 2
    /\ diagnostic_buckets_display # << >>
    /\ diagnostic_buckets_display = NamedBuckets(diagnostic_framework[1])
    /\ NamedBuckets(diagnostic_framework[2]) # << >>
    /\ Range(NamedBuckets(diagnostic_framework[2])) \cap Range(diagnostic_buckets_display) = {}

\* the tier the resolver reads its names from yields no name: no level is
\* requested, the framework is empty, or that tier has no non-empty name
NoUsableName ==
    \/ tier_level = None
    \/ diagnostic_framework = << >>
    \/ NamedBuckets(diagnostic_framework[IF Carriers # {} THEN SetMin(Carriers) ELSE 1]) = << >>

\* the first position of name n among all bucket names of the framework
FirstSeen(n) ==
    SetMin({ j \in DOMAIN AllNames(diagnostic_framework) : AllNames(diagnostic_framework)[j] = n })

\* C9: when the selected tier yields no usable name, the resolved bucket
\* list is the union of the non-empty bucket names of every tier, each name
\* once, in first-seen order.
C9_UnionFallback ==
    (Resolved /\ NoUsableName) =>
        /\ Range(diagnostic_buckets_display) =
               { n \in Range(AllNames(diagnostic_framework)) : n # << >> }
        /\ \A i, j \in DOMAIN diagnostic_buckets_display :
               i < j => FirstSeen(diagnostic_buckets_display[i]) < FirstSeen(diagnostic_buckets_display[j])

\* no level is requested and the union of two tiers that share a name has
\* two names, the shared one once
C9_Witness ==
    /\ Resolved /\ tier_level = None
    /\ Len(diagnostic_framework) = 2
    /\ Range(NamedBuckets(diagnostic_framework[1])) \cap Range(NamedBuckets(diagnostic_framework[2])) # {}
    /\ Len(diagnostic_buckets_display) = 2
    /\ diagnostic_buckets_display[1] # diagnostic_buckets_display[2]

\* the records have been filtered
Filtered == pc \in { "rows", "done" }

\* C10: the filter never drops a record without tier metadata: a mixed
\* input keeps its records without a tier level, and an input whose records
\* all lack a tier level keeps every row.
C10_TierlessKept ==
    Filtered =>
        \A i \in DOMAIN feature_likelihood_ratios :
            GetTierLevel(feature_likelihood_ratios[i]) = None =>
                feature_likelihood_ratios[i] \in Range(flrs_iter)

\* the table has been returned
Returned == pc = "done"

\* the standardized labels of the processed records
ProcessedLabels == { LabelOf(k) : k \in DOMAIN flrs_iter }

\* C11: the row labels of a built table are the distinct standardized
\* labels of the processed records, each once, in ascending lexicographic
\* order.
C11_RowLabels ==
    Returned =>
        /\ { df.rows[i].Feature : i \in DOMAIN df.rows } = { Text(l) : l \in ProcessedLabels }
        /\ \A i, j \in DOMAIN df.rows :
               i < j => StrLess(df.rows[i].Feature.str, df.rows[j].Feature.str)

\* the labels that have a row in the map under construction
RowLabels(map) == { map[i].Feature : i \in DOMAIN map }

\* the step processes a record whose bucket resolves to none
UnmatchedStep ==
    /\ pc = "rows"
    /\ Len(iters') = Len(iters) + 1
    /\ iters'[Len(iters')].display_bucket = None

\* the rows of the map before the step are the same after it
RowsKept == \A i \in DOMAIN feature_lr_map :
                i \in DOMAIN feature_lr_map' /\ feature_lr_map'[i] = feature_lr_map[i]

\* the step adds nothing to the map when the label of its record has a row,
\* and else one row of that label with every resolved bucket at 1.0
NeutralRowAdded ==
    IF LabelOf(Len(iters')) \in RowLabels(feature_lr_map)
    THEN Len(feature_lr_map') = Len(feature_lr_map)
    ELSE /\ Len(feature_lr_map') = Len(feature_lr_map) + 1
         /\ feature_lr_map'[Len(feature_lr_map')].Feature = LabelOf(Len(iters'))
         /\ DOMAIN feature_lr_map'[Len(feature_lr_map')].cells = Range(diagnostic_buckets_display)
         /\ \A b \in Range(diagnostic_buckets_display) :
                feature_lr_map'[Len(feature_lr_map')].cells[b] = NeutralLR

\* C12: processing a record whose bucket resolves to none changes no cell
\* of any row; a new label gets a row with every bucket at 1.0, and every
\* value set before stays.
C12_UnmatchedKeepsCells == [][UnmatchedStep => (RowsKept /\ NeutralRowAdded)]_vars

\* an unmatched record has been processed whose row holds, unchanged, a
\* value that an earlier record of the same label had set
C12_Witness ==
    \E k \in DOMAIN iters :
        /\ k > 1
        /\ iters[k].display_bucket = None
        /\ iters[k - 1].display_bucket # None
        /\ LabelOf(k) = LabelOf(k - 1)
        /\ Round2(flrs_iter[k - 1].likelihood_ratio) # NeutralLR
        /\ \E i \in DOMAIN feature_lr_map :
             /\ feature_lr_map[i].Feature = LabelOf(k)
             /\ feature_lr_map[i].cells[iters[k - 1].display_bucket[1]]
                    = Round2(flrs_iter[k - 1].likelihood_ratio)

\* C13: with zero rows as with more, the header of the built table is
\* 'Feature' followed by every resolved bucket display name in resolver
\* order.
C13_Header ==
    Returned => df.columns = << FeatureCol >> \o diagnostic_buckets_display

Validated == pc = "validated"

\* the numeric columns of the validated frame that hold a number <= 0
Offending == SelectSeq(NumericCols(table), LAMBDA c : \E v \in Numbers(c) : v <= 0)

\* the messages the claim expects in errors: one for a first header that is
\* not 'Feature', then one per offending column
ExpectedErrors ==
    (IF table.columns[1].name # FeatureCol THEN << FirstColumnError >> ELSE << >>)
        \o [ i \in DOMAIN Offending |-> NonPositive(Offending[i].name) ]

\* C15: when the validator returns, valid is false exactly when the first
\* header is not 'Feature' or a numeric column holds a value <= 0, errors
\* holds one message per violation, valid is true exactly when errors is
\* empty, and warnings do not change valid.
C15_ValidIffNoErrors ==
    (Validated /\ validation[1].raised = "") =>
        /\ validation[1].errors = ExpectedErrors
        /\ validation[1].valid = (validation[1].errors = << >>)
        /\ ~validation[1].valid = (table.columns[1].name # FeatureCol \/ Offending # << >>)

\* the validator has returned valid=false with two messages for a frame
\* whose first header is not 'Feature' and that holds a number <= 0, with
\* a warning as well
C15_Witness ==
    /\ Validated /\ validation[1].raised = ""
    /\ ~validation[1].valid
    /\ Len(validation[1].errors) = 2
    /\ validation[1].errors[1] = FirstColumnError
    /\ validation[1].warnings # << >>

\* C16: the validator never raises, for a frame with no columns or no rows
\* as for any other: it always returns valid, errors and warnings.
C16_NeverRaises ==
    Validated => validation[1].raised = ""

\* --- C17 ----------------------------------------------------------------
Answered == response # None /\ endpoint \in CaseEndpoints \cup SessionEndpoints

\* C17: every CSV and Excel matrix export endpoint, of stored cases and of
\* draft sessions, has run the validator on the built matrix when it
\* answers, and when the validator's valid is false its answer is an error
\* that carries the validator's errors list and no file.
C17_ValidatedBeforeFile ==
    Answered =>
        /\ validation # None
        /\ table = FrameTable(df)
        /\ validation[1] = Validate(FrameTable(df))
        /\ (validation[1].raised = "" /\ ~ validation[1].valid) =>
               /\ response[1].status = 400
               /\ response[1].errors = validation[1].errors
               /\ response[1].content = << >>
               /\ response[1].workbook = NoSheet

\* --- C18 ----------------------------------------------------------------
PriorsReturned == pc = "answered" /\ endpoint \in PriorsEndpoints

\* the positions of the tiers of the requested level
LevelTiers == { i \in DOMAIN diagnostic_framework : diagnostic_framework[i].tier_level = tier_level }

ExpectedPriors ==
    IF LevelTiers # { } THEN diagnostic_framework[SetMin(LevelTiers)].a_priori_probabilities
    ELSE IF diagnostic_framework # << >> THEN diagnostic_framework[1].a_priori_probabilities
    ELSE << >>

\* C18: create_prior_probabilities_file(framework, T) returns the mapping of
\* the first tier whose tier_level is T; with no tier of level T the
\* mapping of the framework's first tier; with an empty framework the empty
\* mapping; whatever the mapping sums to, it is returned as it is.
C18_PriorsLookup == PriorsReturned => prior_probs = Some(ExpectedPriors)

\* no tier of the level, two tiers with different mappings, and the first
\* tier's mapping, which does not sum to 1.0, is what was returned
C18_Witness ==
    /\ PriorsReturned
    /\ LevelTiers = { }
    /\ Len(diagnostic_framework) = 2
    /\ diagnostic_framework[1].a_priori_probabilities # diagnostic_framework[2].a_priori_probabilities
    /\ prior_probs = Some(diagnostic_framework[1].a_priori_probabilities)
    /\ prior_probs[1] # << >>
    /\ Abs(TotalProb(prior_probs[1]) - One) > Tolerance

\* --- C19 ----------------------------------------------------------------
\* the number a text of digits states, its sign and point passed over
RECURSIVE DigitsValue(_, _)
DigitsValue(text, acc) ==
    IF text = << >> THEN acc
    ELSE IF IsDigit(text[1]) THEN DigitsValue(Tail(text), (10 * acc) + (Ord[text[1]] - Ord["0"]))
    ELSE DigitsValue(Tail(text), acc)

\* the text states the sum to three decimals, with the sign of the sum
StatesSum(text, total) ==
    /\ Abs((10 * DigitsValue(text, 0)) - Abs(total)) <= 5
    /\ (text # << >> /\ text[1] = "-") <=> (total < 0)

\* C19: both prior-probability endpoints answer with the priors JSON only
\* when the probabilities sum to 1.0 within 0.01; when the sum is further
\* away they answer with an error that states the sum; an empty mapping is
\* answered as not found.
C19_SumChecked ==
    PriorsReturned =>
        /\ (prior_probs[1] = << >>) <=> (response[1].status = 404)
        /\ response[1].status = 200 =>
               /\ Abs(TotalProb(prior_probs[1]) - One) <= Tolerance
               /\ response[1].content = JsonDumps(prior_probs[1])
        /\ (prior_probs[1] # << >> /\ Abs(TotalProb(prior_probs[1]) - One) > Tolerance) =>
               response[1].status = 400
        /\ response[1].status = 400 => StatesSum(response[1].total, TotalProb(prior_probs[1]))
        /\ response[1].status \in { 200, 400, 404 }

\* {A: 0.4, B: 0.5} was rejected with the sum 0.900
C19_Witness ==
    /\ PriorsReturned
    /\ prior_probs = Some(<< Item(<< "A" >>, 4000), Item(<< "B" >>, 5000) >>)
    /\ response[1].status = 400
    /\ response[1].total = << "0", ".", "9", "0", "0" >>

\* --- C20 ----------------------------------------------------------------
DebugAnswered == pc = "answered" /\ endpoint = DebugMatchingEndpoint

\* the loop iterations of the builder that resolved their record to b
ResolvedTo(b) == { i \in DOMAIN iters : iters[i].display_bucket = Some(b) }

\* the labels the builder left unmatched, in order
LeftUnmatched ==
    [ i \in DOMAIN SelectSeq(iters, LAMBDA it : it.display_bucket = None) |->
        SelectSeq(iters, LAMBDA it : it.display_bucket = None)[i].diagnostic_bucket ]

\* C20: for the same case and tier level the debug report agrees with the
\* strict matrix builder: the same selected buckets, the same LR records,
\* a record counted as matched to bucket b exactly when the builder
\* resolved it to b, and listed as unmatched exactly when the builder left
\* it unmatched.
C20_DebugAgrees ==
    DebugAnswered =>
        /\ response[1].selected_buckets = diagnostic_buckets_display
        /\ response[1].total_lrs = Len(flrs_iter)
        /\ \A j \in DOMAIN response[1].bucket_match_counts :
               response[1].bucket_match_counts[j].val
                   = Cardinality(ResolvedTo(response[1].bucket_match_counts[j].key))
        /\ [ i \in DOMAIN response[1].sample_unmatched |->
               response[1].sample_unmatched[i].diagnostic_bucket ] = LeftUnmatched

\* --- C21 ----------------------------------------------------------------
\* the fillers of a category that the text starts with
LeadingFillers(s, fillers) == { i \in DOMAIN fillers : StartsWith(s, fillers[i]) }

\* the text without the filler it starts with, if any
WithoutLeadingFiller(s, fillers) ==
    IF LeadingFillers(s, fillers) = { } THEN s
    ELSE From(s, Len(fillers[SetMin(LeadingFillers(s, fillers))]) + 1)

\* the lowercased, trimmed name with a leading filler removed
CleanedName(name, fillers) == Strip(WithoutLeadingFiller(Strip(Lower(name)), fillers))

LabelAsStated(name, cat) ==
    IF cat = CatHistory THEN PatientHas \o CleanedName(name, HistoryFillers)
    ELSE IF cat = CatPhysicalExam THEN PhysicalFinding \o CleanedName(name, PhysicalFillers)
    ELSE IF cat = CatDiagnosticWorkup THEN TestResult \o CleanedName(name, WorkupFillers)
    ELSE ClinicalFeature \o Strip(name)

Labelled == feature_lr_map # << >> /\ Len(feature_likelihood_ratios) = 1

\* C21: the row label of a history, physical_exam or diagnostic_workup
\* record is the category's lead-in followed by the lowercased, trimmed
\* feature name with the category's filler text removed only where it is a
\* leading prefix; for any other category it is 'Clinical Feature: '
\* followed by the trimmed name.
C21_LeadingFillerOnly ==
    Labelled =>
        feature_lr_map[1].Feature
            = LabelAsStated(feature_likelihood_ratios[1].feature_name,
                            feature_likelihood_ratios[1].feature_category)

\* --- C22 ----------------------------------------------------------------
\* s[i..j] holds only whitespace
AllSpaces(s, i, j) == \A k \in i .. j : IsSpace(s[k])

AllDigits(s, i, j) == \A k \in i .. j : IsDigit(s[k])

\* s[1..k] is 'tier', whitespace, digits (one at least), whitespace, a
\* colon, whitespace, and no whitespace follows it
TierPrefixEnds(s, k) ==
    /\ k \in 6 .. Len(s)
    /\ SubSeq(s, 1, 4) = TierWord
    /\ \E p \in 5 .. k : \E q \in p + 1 .. k : \E r \in q .. k :
          /\ AllSpaces(s, 5, p - 1)
          /\ AllDigits(s, p, q - 1)
          /\ AllSpaces(s, q, r - 1)
          /\ s[r] = ":"
          /\ AllSpaces(s, r + 1, k)
    /\ (k < Len(s) => ~ IsSpace(s[k + 1]))

\* the text after its leading tier prefix, when it has one
AfterTierPrefix(s) ==
    IF \E k \in 1 .. Len(s) : TierPrefixEnds(s, k)
    THEN From(s, (CHOOSE k \in 1 .. Len(s) : TierPrefixEnds(s, k)) + 1)
    ELSE s

\* the words of a text, in order
RECURSIVE Words(_)
Words(s) ==
    IF SkipSpaces(s, 1) > Len(s) THEN << >>
    ELSE << SubSeq(s, SkipSpaces(s, 1), SkipWord(s, SkipSpaces(s, 1)) - 1) >>
           \o Words(From(s, SkipWord(s, SkipSpaces(s, 1))))

\* the words separated by one space
RECURSIVE Join(_)
Join(ws) ==
    IF ws = << >> THEN << >>
    ELSE IF Len(ws) = 1 THEN ws[1]
    ELSE ws[1] \o << " " >> \o Join(Tail(ws))

Normalized == iters # << >> /\ Len(feature_likelihood_ratios) = 1

\* C22: the normaliser returns, for every label and for the empty or
\* missing one, the label lowercased and trimmed, without one leading
\* 'tier <digits>:' prefix of any case, its whitespace runs collapsed to
\* one space each; the result has no whitespace at its ends and no
\* whitespace run longer than one, and the empty label gives the empty
\* string.
C22_Normalizer ==
    Normalized =>
        /\ iters[1].norm_bucket
              = Join(Words(AfterTierPrefix(Lower(Strip(feature_likelihood_ratios[1].diagnostic_bucket)))))
        /\ iters[1].norm_bucket = Strip(iters[1].norm_bucket)
        /\ \A i \in DOMAIN iters[1].norm_bucket :
               /\ IsSpace(iters[1].norm_bucket[i]) => iters[1].norm_bucket[i] = " "
               /\ (i > 1 /\ IsSpace(iters[1].norm_bucket[i])) => ~ IsSpace(iters[1].norm_bucket[i - 1])
               /\ ~ IsUpper(iters[1].norm_bucket[i])
        /\ feature_likelihood_ratios[1].diagnostic_bucket = << >> => iters[1].norm_bucket = << >>

\* '\t Tier 2:  A  b' was normalised to 'a b'
C22_Witness ==
    /\ Normalized
    /\ feature_likelihood_ratios[1].diagnostic_bucket = << "\t", " ", "T", "i", "e", "r", " ", "2", ":", " ", " ", "A", " ", " ", "b" >>
    /\ iters[1].norm_bucket = << "a", " ", "b" >>

\* --- C23 ----------------------------------------------------------------
\* the tiers of the framework that lack the key
TiersLacking(key) == { j \in DOMAIN diagnostic_framework : key \notin DOMAIN diagnostic_framework[j] }

\* the tiers with a bucket that has no name
TiersWithNameless ==
    { j \in DOMAIN diagnostic_framework :
        /\ "buckets" \in DOMAIN diagnostic_framework[j]
        /\ \E b \in Range(diagnostic_framework[j].buckets) : "name" \notin DOMAIN b }

MissingOfRecords ==
    UNION { { RecordKeys[k] : k \in MissingKeys(feature_likelihood_ratios[i]) } :
              i \in DOMAIN feature_likelihood_ratios }

\* the required fields that the inputs of the call lack
MissingFields ==
    IF endpoint = MatrixCall
    THEN { key \in { "tier_level", "buckets" } : TiersLacking(key) # { } }
           \cup { key \in { "name" } : TiersWithNameless # { } }
           \cup MissingOfRecords
    ELSE { key \in { "tier_level", "a_priori_probabilities" } : TiersLacking(key) # { } }

CallEnded == endpoint \in { MatrixCall, PriorsCall } /\ pc \in { "done", "raised" }

\* C23: when a required field is missing from the framework or from an LR
\* record, the call of create_feature_lr_matrix or of
\* create_prior_probabilities_file ends with an error that names a missing
\* field and returns no table and no mapping.
C23_MissingFieldFails ==
    (CallEnded /\ MissingFields # { }) =>
        /\ pc = "raised"
        /\ raised # None
        /\ raised[1].key \in MissingFields
        /\ df = NoFrame
        /\ prior_probs = None

\* C24: no core operation mutates its inputs, and what it returns shares no
\* mutable structure with them: neither a bare call of
\* create_feature_lr_matrix or create_prior_probabilities_file nor a change
\* the caller makes to the returned value changes the framework or the LR
\* records that were passed in.
C24_InputsNeverChange ==
    [][UNCHANGED << diagnostic_framework, feature_likelihood_ratios >>]_vars

\* the request r has been answered
IsAnswered(r) == requests[r].at = "answered"

StatusOf(r) == requests[r].response[1].status_code

\* the request r read Redis, which worked and held nothing for the session
UnknownSession(r) == redis_client /\ requests[r].redis = "ok" /\ requests[r].session_json = None

\* C27: edit-case and GET /session/{id} answer a session id with no stored
\* data with 404 'Session not found or expired', and answer 503 only when
\* Redis is missing or failing; an unknown session gives no 500 or 503.
C27_UnknownSessionIs404 ==
    \A r \in DOMAIN requests :
       (IsAnswered(r) /\ requests[r].handler \in { "edit_case", "get_session_data" }) =>
           /\ UnknownSession(r) =>
                /\ StatusOf(r) = 404
                /\ requests[r].response[1].detail = "Session not found or expired"
           /\ StatusOf(r) = 503 => (~redis_client \/ requests[r].redis = "failed")

\* the session sd with exactly the components present in the request
\* replaced by the request's values
Replaced(sd, body) ==
    [ sd EXCEPT
        !.case_details = IF body.case_details # None THEN body.case_details[1] ELSE @,
        !.diagnostic_framework =
            IF body.diagnostic_framework # None THEN body.diagnostic_framework[1] ELSE @,
        !.feature_likelihood_ratios =
            IF body.feature_likelihood_ratios # None THEN body.feature_likelihood_ratios[1] ELSE @,
        !.title = IF body.title # None THEN body.title ELSE @,
        !.description = IF body.description # None THEN body.description ELSE @,
        !.primary_diagnosis = IF body.primary_diagnosis # None THEN body.primary_diagnosis ELSE @ ]

\* the step that answers the edit-case request r
EditAnswers(r) ==
    /\ requests[r].handler = "edit_case"
    /\ requests[r].at # "answered"
    /\ requests'[r].at = "answered"

\* C28: a successful edit-case replaces exactly the session components
\* present in the request with the request's values, an empty list given for
\* the framework or the LR list included, and leaves the absent ones and
\* original_input unchanged; a failed edit-case leaves the stored session
\* unchanged.
C28_EditReplacesPresent ==
    [][\A r \in DOMAIN requests :
          EditAnswers(r) =>
              IF requests'[r].response[1].status_code = 200
              THEN store # None /\ store' = Some(Replaced(store[1], requests[r].body))
              ELSE store' = store]_vars

SessionFields ==
    { "case_details", "diagnostic_framework", "feature_likelihood_ratios", "title",
      "description", "primary_diagnosis" }

\* the request r was answered with success and its setex worked
Saved(r) == IsAnswered(r) /\ StatusOf(r) = 200 /\ requests[r].redis = "ok"

\* the session components the request r asks to change
Written(r) ==
    IF requests[r].handler = "regenerate_lrs" THEN { "feature_likelihood_ratios" }
    ELSE { f \in SessionFields :
             IF f \in { "diagnostic_framework", "feature_likelihood_ratios" }
             THEN TruthyList(requests[r].body[f]) ELSE requests[r].body[f] # None }

\* C25: when two requests that write the same session interleave, the
\* session stored after both were accepted contains the updates of both: no
\* component one of them changed and the other did not is lost.
C25_NoLostUpdate ==
    \A r \in DOMAIN requests, q \in DOMAIN requests :
       (r # q /\ Saved(r) /\ Saved(q)) =>
           \A f \in Written(r) \ Written(q) :
              store # None /\ store[1][f] = requests[r].session_data[1][f]

\* the rows of the session of request r that are in the database
CaseStored(r) == \E i \in DOMAIN database.cases : database.cases[i].id = requests[r].case_id

TiersStored(r) ==
    [ i \in DOMAIN database.frameworks |-> database.frameworks[i].tier ]
        = requests[r].session_data[1].diagnostic_framework

LrsStored(r) ==
    [ i \in DOMAIN database.feature_lrs |-> database.feature_lrs[i].lr ]
        = requests[r].session_data[1].feature_likelihood_ratios

AllStored(r) == CaseStored(r) /\ TiersStored(r) /\ LrsStored(r)

\* C26: finalize-case is all-or-nothing: after it returns, with success or
\* with an error, the database holds the case with all of the session's
\* tiers and all of its LR records, or none of them; and the session is
\* gone from Redis only if all three saves succeeded.
C26_FinalizeAllOrNothing ==
    \A r \in DOMAIN requests :
       (requests[r].handler = "finalize_case" /\ IsAnswered(r)) =>
           /\ database = NoRows \/ AllStored(r)
           /\ (requests[r].session_json # None /\ store = None) => AllStored(r)

\* the names of the resolved bucket set
DisplayNames == { diagnostic_buckets_display[i] : i \in DOMAIN diagnostic_buckets_display }

\* C29: an LR record whose diagnostic_bucket is exactly a display name of
\* the resolved bucket set resolves to the column of that name, in strict
\* and non-strict mode, also when two names of the set differ only in case,
\* whitespace or a 'tier N:' prefix.
C29_ExactNameOwnColumn ==
    \A i \in DOMAIN iters :
       flrs_iter[i].diagnostic_bucket \in DisplayNames =>
           iters[i].display_bucket = Some(flrs_iter[i].diagnostic_bucket)

\* C30: the name normaliser is idempotent: normalising the key of a label
\* once more gives the same key.
C30_NormIdempotent ==
    \A i \in DOMAIN iters : Norm(iters[i].norm_bucket) = iters[i].norm_bucket

====
